---- MODULE Spec2Model ----
(***************************************************************************)
(* A model of the Amazon wishlist scraper (src/src/fuck_amazon.ts): the    *)
(* main() driver as a state machine over one browser page, and its pure    *)
(* helpers (escapeCSV, the CSV builder, the product-link clean-up, the     *)
(* list-name sanitizer) as operators over character sequences.             *)
(*                                                                         *)
(* A string is a sequence of one-character strings, so that the code's     *)
(* string operations (trim, split, startsWith, replace, regular            *)
(* expressions) are computed character by character.                       *)
(***************************************************************************)
EXTENDS Integers, Sequences, FiniteSets, TLC

\* ------------------------------------------------------------------------
\* Characters and generic string helpers (JavaScript String methods)
\* ------------------------------------------------------------------------

LowerSeq == <<"a", "b", "c", "d", "e", "f", "g", "h", "i", "j", "k", "l", "m",
    "n", "o", "p", "q", "r", "s", "t", "u", "v", "w", "x", "y", "z">>

UpperSeq == <<"A", "B", "C", "D", "E", "F", "G", "H", "I", "J", "K", "L", "M",
    "N", "O", "P", "Q", "R", "S", "T", "U", "V", "W", "X", "Y", "Z">>

DigitSeq == <<"0", "1", "2", "3", "4", "5", "6", "7", "8", "9">>

Range(s) == {s[i] : i \in DOMAIN s}

\* [a-zA-Z0-9]
IsAlnum(c) == c \in Range(LowerSeq) \cup Range(UpperSeq) \cup Range(DigitSeq)

\* \s of a JavaScript regular expression, as far as the model's alphabet goes
IsSpace(c) == c \in {" ", "\n", "\t", "\r"}

IndexIn(c, s) == CHOOSE i \in DOMAIN s : s[i] = c

ToUpperChar(c) == IF c \in Range(LowerSeq) THEN UpperSeq[IndexIn(c, LowerSeq)] ELSE c

ToLowerChar(c) == IF c \in Range(UpperSeq) THEN LowerSeq[IndexIn(c, UpperSeq)] ELSE c

\* String.prototype.toUpperCase
toUpperCase(s) == [i \in DOMAIN s |-> ToUpperChar(s[i])]

toLowerCase(s) == [i \in DOMAIN s |-> ToLowerChar(s[i])]

\* String.prototype.trimStart
RECURSIVE trimStart(_)
trimStart(s) ==
    IF s = <<>> THEN <<>>
    ELSE IF IsSpace(Head(s)) THEN trimStart(Tail(s))
    ELSE s

\* String.prototype.trimEnd
RECURSIVE trimEnd(_)
trimEnd(s) ==
    IF s = <<>> THEN <<>>
    ELSE IF IsSpace(s[Len(s)]) THEN trimEnd(SubSeq(s, 1, Len(s) - 1))
    ELSE s

\* String.prototype.trim
trim(s) == trimEnd(trimStart(s))

\* String.prototype.startsWith
startsWith(s, p) == Len(s) >= Len(p) /\ SubSeq(s, 1, Len(p)) = p

\* String.prototype.includes, for a one-character needle
includes(s, c) == \E i \in DOMAIN s : s[i] = c

\* the first index >= from at which pat occurs in s, 0 if none
RECURSIVE IndexOfFrom(_, _, _)
IndexOfFrom(s, pat, from) ==
    IF from + Len(pat) - 1 > Len(s) THEN 0
    ELSE IF SubSeq(s, from, from + Len(pat) - 1) = pat THEN from
    ELSE IndexOfFrom(s, pat, from + 1)

\* the first index >= from of a character of s that is in cs, Len(s) + 1 if none
RECURSIVE FirstOf(_, _, _)
FirstOf(s, cs, from) ==
    IF from > Len(s) THEN Len(s) + 1
    ELSE IF s[from] \in cs THEN from
    ELSE FirstOf(s, cs, from + 1)

\* String.prototype.split on a one-character separator
RECURSIVE split(_, _)
split(s, sep) ==
    IF ~includes(s, sep) THEN <<s>>
    ELSE <<SubSeq(s, 1, FirstOf(s, {sep}, 1) - 1)>>
         \o split(SubSeq(s, FirstOf(s, {sep}, 1) + 1, Len(s)), sep)

\* Array.prototype.join
RECURSIVE join(_, _)
join(parts, sep) ==
    IF Len(parts) = 0 THEN <<>>
    ELSE IF Len(parts) = 1 THEN parts[1]
    ELSE parts[1] \o sep \o join(Tail(parts), sep)

\* the decimal digits of a natural number (template-literal formatting)
RECURSIVE NatToString(_)
NatToString(n) ==
    IF n < 10 THEN <<DigitSeq[n + 1]>>
    ELSE NatToString(n \div 10) \o <<DigitSeq[(n % 10) + 1]>>

Max(a, b) == IF a >= b THEN a ELSE b

Min(a, b) == IF a <= b THEN a ELSE b

\* ------------------------------------------------------------------------
\* String constants of the program
\* ------------------------------------------------------------------------

WishlistPrefix == <<"h", "t", "t", "p", "s", ":", "/", "/", "w", "w", "w", ".", "a", "m", "a",
    "z", "o", "n", ".", "c", "o", "m", "/", "h", "z", "/", "w", "i", "s", "h", "l", "i", "s",
    "t", "/", "l", "s", "/">>

DefaultName == <<"w", "i", "s", "h", "l", "i", "s", "t">>

AmazonBase == <<"h", "t", "t", "p", "s", ":", "/", "/", "w", "w", "w", ".", "a", "m", "a", "z",
    "o", "n", ".", "c", "o", "m">>

S_csv == <<".", "c", "s", "v">>

S_ItemName == <<"I", "t", "e", "m", " ", "N", "a", "m", "e">>

S_Manufacturer == <<"M", "a", "n", "u", "f", "a", "c", "t", "u", "r", "e", "r">>

S_ProductLink == <<"P", "r", "o", "d", "u", "c", "t", " ", "L", "i", "n", "k">>

S_NonAmazonLink == <<"N", "o", "n", "-", "A", "m", "a", "z", "o", "n", " ", "L", "i", "n", "k">>

S_Option == <<"O", "p", "t", "i", "o", "n", " ">>

\* ------------------------------------------------------------------------
\* escapeCSV and the CSV builder
\* ------------------------------------------------------------------------

\* A replace that leaves the quotes as they are
DoubleQuotes_Keeps(s) == s

\* field.replace(/"/g, '""')
RECURSIVE DoubleQuotes(_)
DoubleQuotes(s) ==
    IF s = <<>> THEN <<>>
    ELSE (IF Head(s) = "\"" THEN <<"\"", "\"">> ELSE <<Head(s)>>) \o DoubleQuotes(Tail(s))

escapeCSV(field) ==
    IF includes(field, "\"") \/ includes(field, ",") \/ includes(field, "\n")
    THEN <<"\"">> \o DoubleQuotes(field) \o <<"\"">>
    ELSE field

\* items.reduce((max, item) => Math.max(max, item.options.length), 0)
RECURSIVE maxOptionsOf(_)
maxOptionsOf(its) ==
    IF its = <<>> THEN 0
    ELSE Max(Len(Head(its).options), maxOptionsOf(Tail(its)))

\* the header cells, before escaping
headerColumns(maxOptions) ==
    <<S_ItemName, S_Manufacturer, S_ProductLink, S_NonAmazonLink>>
        \o [i \in 1..maxOptions |-> S_Option \o NatToString(i)]

\* item.options[i] || ""
optionOrEmpty(item, i) ==
    IF i <= Len(item.options) /\ item.options[i] # <<>> THEN item.options[i] ELSE <<>>

\* A row with the item's own options only, without the padding
rowCells_NoPadding(item, maxOptions) ==
    <<escapeCSV(item.itemName), escapeCSV(item.manufacturer),
      escapeCSV(item.productLink), escapeCSV(item.nonAmazonLink)>>
        \o [i \in 1..Min(maxOptions, Len(item.options)) |-> escapeCSV(item.options[i])]

\* the cells of one data row, each already escaped
rowCells(item, maxOptions) ==
    <<escapeCSV(item.itemName), escapeCSV(item.manufacturer),
      escapeCSV(item.productLink), escapeCSV(item.nonAmazonLink)>>
        \o [i \in 1..maxOptions |-> escapeCSV(optionOrEmpty(item, i))]

\* headerColumns.map(escapeCSV).join(",")
headerLine(maxOptions) ==
    join([i \in 1..(4 + maxOptions) |-> escapeCSV(headerColumns(maxOptions)[i])], <<",">>)

\* csvRows: the header line followed by one line per item
csvRows(its) ==
    <<headerLine(maxOptionsOf(its))>>
        \o [n \in 1..Len(its) |-> join(rowCells(its[n], maxOptionsOf(its)), <<",">>)]

\* csvData = csvRows.join("\n")
csvDataOf(its) == join(csvRows(its), <<"\n">>)

\* ------------------------------------------------------------------------
\* Percent-encoding (the part of it the model's alphabet needs)
\* ------------------------------------------------------------------------

\* <<character, high hex digit, low hex digit>>
PctTable == <<
    <<"\n", "0", "A">>, <<" ", "2", "0">>, <<"\"", "2", "2">>, <<"#", "2", "3">>,
    <<"%", "2", "5">>, <<"&", "2", "6">>, <<"+", "2", "B">>, <<",", "2", "C">>,
    <<"/", "2", "F">>, <<":", "3", "A">>, <<"=", "3", "D">>, <<"?", "3", "F">>,
    <<"[", "5", "B">>, <<"]", "5", "D">> >>

IsHex(c) == c \in Range(DigitSeq) \cup {"a", "b", "c", "d", "e", "f", "A", "B", "C", "D", "E", "F"}

PctKnown(h1, h2) ==
    \E i \in DOMAIN PctTable :
        PctTable[i][2] = ToUpperChar(h1) /\ PctTable[i][3] = ToUpperChar(h2)

PctChar(h1, h2) ==
    PctTable[CHOOSE i \in DOMAIN PctTable :
        PctTable[i][2] = ToUpperChar(h1) /\ PctTable[i][3] = ToUpperChar(h2)][1]

PctHas(c) == \E i \in DOMAIN PctTable : PctTable[i][1] = c

PctOf(c) == PctTable[CHOOSE i \in DOMAIN PctTable : PctTable[i][1] = c]

\* a decoding result with chars put in front of it
Decoded(chars, r) == [ok |-> r.ok, val |-> chars \o r.val]

\* decodeURIComponent: the decoded string, or a URIError (ok = FALSE) at a "%" that
\* does not start a two-digit escape. Escapes outside PctTable are outside the
\* model's alphabet and are kept as written.
RECURSIVE decodeURIComponent(_)
decodeURIComponent(s) ==
    IF s = <<>> THEN [ok |-> TRUE, val |-> <<>>]
    ELSE IF Head(s) # "%" THEN Decoded(<<Head(s)>>, decodeURIComponent(Tail(s)))
    ELSE IF Len(s) < 3 \/ ~IsHex(s[2]) \/ ~IsHex(s[3]) THEN [ok |-> FALSE, val |-> <<>>]
    ELSE IF PctKnown(s[2], s[3])
    THEN Decoded(<<PctChar(s[2], s[3])>>, decodeURIComponent(SubSeq(s, 4, Len(s))))
    ELSE Decoded(SubSeq(s, 1, 3), decodeURIComponent(SubSeq(s, 4, Len(s))))

\* A decoding that leaves "+" as it is
RECURSIVE FormDecode_KeepsPlus(_)
FormDecode_KeepsPlus(s) ==
    IF s = <<>> THEN <<>>
    ELSE IF Head(s) = "%" /\ Len(s) >= 3 /\ IsHex(s[2]) /\ IsHex(s[3]) /\ PctKnown(s[2], s[3])
    THEN <<PctChar(s[2], s[3])>> \o FormDecode_KeepsPlus(SubSeq(s, 4, Len(s)))
    ELSE <<Head(s)>> \o FormDecode_KeepsPlus(Tail(s))

\* the lenient decoding of the application/x-www-form-urlencoded parser:
\* "+" is a space, a malformed "%" is kept
RECURSIVE FormDecode(_)
FormDecode(s) ==
    IF s = <<>> THEN <<>>
    ELSE IF Head(s) = "+" THEN <<" ">> \o FormDecode(Tail(s))
    ELSE IF Head(s) = "%" /\ Len(s) >= 3 /\ IsHex(s[2]) /\ IsHex(s[3]) /\ PctKnown(s[2], s[3])
    THEN <<PctChar(s[2], s[3])>> \o FormDecode(SubSeq(s, 4, Len(s)))
    ELSE <<Head(s)>> \o FormDecode(Tail(s))

\* the application/x-www-form-urlencoded serializer of one character
FormEncodeChar(c) ==
    IF c = " " THEN <<"+">>
    ELSE IF IsAlnum(c) \/ c \in {"*", "-", ".", "_"} \/ ~PctHas(c) THEN <<c>>
    ELSE <<"%", PctOf(c)[2], PctOf(c)[3]>>

\* the application/x-www-form-urlencoded serializer of one name or value
RECURSIVE FormEncode(_)
FormEncode(s) ==
    IF s = <<>> THEN <<>> ELSE FormEncodeChar(Head(s)) \o FormEncode(Tail(s))

\* ------------------------------------------------------------------------
\* new URL(href, "https://www.amazon.com"), searchParams and toString()
\*
\* The WHATWG parser restricted to http(s) URLs without userinfo, port or
\* dot segments: an absolute "http(s)://host...", a scheme-relative
\* "//host...", an absolute path "/...", or a path relative to the base's "/".
\* ------------------------------------------------------------------------

S_http == <<"h", "t", "t", "p">>

S_https == <<"h", "t", "t", "p", "s">>

S_psc == <<"p", "s", "c">>

S_ref == <<"r", "e", "f", "_">>

S_th == <<"t", "h">>

\* forbidden host code points
ForbiddenHost == {" ", "\n", "\t", "\r", "#", "%", "/", "<", ">", "?", "@", "[", "\\", "]", "^", "|"}

\* the path percent-encode set, and the fragment's, as far as the model's
\* alphabet goes
RECURSIVE PathEncode(_)
PathEncode(s) ==
    IF s = <<>> THEN <<>>
    ELSE (IF Head(s) = " " THEN <<"%", "2", "0">>
          ELSE IF Head(s) = "\"" THEN <<"%", "2", "2">>
          ELSE <<Head(s)>>) \o PathEncode(Tail(s))

\* one "name=value" part, the "=" being at index i (0: none)
ParsePair(p, i) ==
    [name |-> FormDecode(IF i = 0 THEN p ELSE SubSeq(p, 1, i - 1)),
     value |-> FormDecode(IF i = 0 THEN <<>> ELSE SubSeq(p, i + 1, Len(p)))]

\* the application/x-www-form-urlencoded parser, over the "&"-separated parts
RECURSIVE ParsePairs(_)
ParsePairs(parts) ==
    IF parts = <<>> THEN <<>>
    ELSE IF Head(parts) = <<>> THEN ParsePairs(Tail(parts))
    ELSE <<ParsePair(Head(parts), IndexOfFrom(Head(parts), <<"=">>, 1))>>
         \o ParsePairs(Tail(parts))

ParseQuery(q) == ParsePairs(split(q, "&"))

\* path, query and fragment of the part t of a URL that follows the host, its
\* path ending before index q and its query before index h
TailAt(t, q, h) ==
    [path |-> IF q = 1 THEN <<"/">> ELSE PathEncode(SubSeq(t, 1, q - 1)),
     params |-> IF q <= Len(t) /\ t[q] = "?" THEN ParseQuery(SubSeq(t, q + 1, h - 1)) ELSE <<>>,
     hasFragment |-> h <= Len(t),
     fragment |-> IF h <= Len(t) THEN PathEncode(SubSeq(t, h + 1, Len(t))) ELSE <<>>]

ParseTail(t) == TailAt(t, FirstOf(t, {"?", "#"}, 1), FirstOf(t, {"#"}, 1))

ValidHost(host) == host # <<>> /\ \A i \in DOMAIN host : host[i] \notin ForbiddenHost

UrlRecord(ok, scheme, host, t) ==
    [ok |-> ok, scheme |-> scheme, host |-> host, path |-> t.path, params |-> t.params,
     hasFragment |-> t.hasFragment, fragment |-> t.fragment]

\* scheme://host/tail, rest being what follows the "//" and the host ending
\* before index e
AuthorityAt(scheme, rest, e) ==
    UrlRecord(ValidHost(SubSeq(rest, 1, e - 1)), scheme,
              toLowerCase(SubSeq(rest, 1, e - 1)), ParseTail(SubSeq(rest, e, Len(rest))))

ParseAuthority(scheme, rest) == AuthorityAt(scheme, rest, FirstOf(rest, {"/", "?", "#"}, 1))

\* the base URL "https://www.amazon.com": its scheme, and its host
BaseScheme == S_https

BaseHost == SubSeq(AmazonBase, 9, Len(AmazonBase))

\* the parse of an href stripped of its leading and trailing spaces
ParseStripped(s) ==
    IF startsWith(toLowerCase(s), S_https \o <<":", "/", "/">>)
    THEN ParseAuthority(S_https, SubSeq(s, 9, Len(s)))
    ELSE IF startsWith(toLowerCase(s), S_http \o <<":", "/", "/">>)
    THEN ParseAuthority(S_http, SubSeq(s, 8, Len(s)))
    ELSE IF startsWith(s, <<"/", "/">>)
    THEN ParseAuthority(BaseScheme, SubSeq(s, 3, Len(s)))
    ELSE UrlRecord(TRUE, BaseScheme, BaseHost,
                   ParseTail(IF s # <<>> /\ s[1] \in {"/", "?", "#"} THEN s ELSE <<"/">> \o s))

\* new URL(href, "https://www.amazon.com"); ok = FALSE is the TypeError
parseURL(href) == ParseStripped(trim(href))

\* A delete that takes the first pair of that name only
RECURSIVE searchParamsDelete_First(_, _)
searchParamsDelete_First(params, name) ==
    IF params = <<>> THEN <<>>
    ELSE IF Head(params).name = name THEN Tail(params)
    ELSE <<Head(params)>> \o searchParamsDelete_First(Tail(params), name)

\* URLSearchParams.delete(name): every pair of that name goes
RECURSIVE searchParamsDelete(_, _)
searchParamsDelete(params, name) ==
    IF params = <<>> THEN <<>>
    ELSE (IF Head(params).name = name THEN <<>> ELSE <<Head(params)>>)
         \o searchParamsDelete(Tail(params), name)

\* URLSearchParams.set(name, value): the first pair of that name takes the value
\* and the others go; without one, the pair is appended
RECURSIVE searchParamsSet(_, _, _)
searchParamsSet(params, name, value) ==
    IF params = <<>> THEN <<[name |-> name, value |-> value]>>
    ELSE IF Head(params).name = name
    THEN <<[name |-> name, value |-> value]>> \o searchParamsDelete(Tail(params), name)
    ELSE <<Head(params)>> \o searchParamsSet(Tail(params), name, value)

SerializeQuery(params) ==
    join([i \in DOMAIN params |->
            FormEncode(params[i].name) \o <<"=">> \o FormEncode(params[i].value)], <<"&">>)

\* URL.prototype.toString()
urlToString(u) ==
    u.scheme \o <<":", "/", "/">> \o u.host \o u.path
        \o (IF u.params = <<>> THEN <<>> ELSE <<"?">> \o SerializeQuery(u.params))
        \o (IF u.hasFragment THEN <<"#">> \o u.fragment ELSE <<>>)

\* A clean-up that leaves ref_ in place
cleanParams_KeepsRef(params) ==
    searchParamsSet(searchParamsDelete(params, S_psc), S_th, <<"1">>)

\* searchParams.delete("psc"); searchParams.delete("ref_"); searchParams.set("th", "1")
cleanParams(params) ==
    searchParamsSet(searchParamsDelete(searchParamsDelete(params, S_psc), S_ref), S_th, <<"1">>)

cleanUrl(u) ==
    IF u.ok THEN [ok |-> TRUE, val |-> urlToString([u EXCEPT !.params = cleanParams(u.params)])]
    ELSE [ok |-> FALSE, val |-> <<>>]

\* the product-link clean-up of a catalog item's href; ok = FALSE when new URL throws
productLinkOf(href) == cleanUrl(parseURL(href))

\* ------------------------------------------------------------------------
\* The list-name sanitizer, the URL test of a non-catalog item, the de-proxying
\* of a search result, and the extraction of one item node
\* ------------------------------------------------------------------------

\* wishlistName.replace(/[^a-zA-Z0-9]/g, "_")
sanitizeName(s) == [i \in DOMAIN s |-> IF IsAlnum(s[i]) THEN s[i] ELSE "_"]

\* [^\s]+$ from index from on
NoSpaceFrom(text, from) == from <= Len(text) /\ \A i \in from..Len(text) : ~IsSpace(text[i])

\* /^https?:\/\/[^\s]+$/i .test(text)
urlRegexTest(text) ==
    \/ startsWith(toLowerCase(text), S_https \o <<":", "/", "/">>) /\ NoSpaceFrom(text, 9)
    \/ startsWith(toLowerCase(text), S_http \o <<":", "/", "/">>) /\ NoSpaceFrom(text, 8)

S_uddg == <<"u", "d", "d", "g", "=">>

\* the first index >= i at which /uddg=([^&]+)/ matches href, 0 if none
RECURSIVE uddgIndex(_, _)
uddgIndex(href, i) ==
    IF i + 5 > Len(href) THEN 0
    ELSE IF SubSeq(href, i, i + 4) = S_uddg /\ href[i + 5] # "&" THEN i
    ELSE uddgIndex(href, i + 1)

\* the group captured by a match at index i
uddgGroup(href, i) == SubSeq(href, i + 5, FirstOf(href, {"&"}, i + 5) - 1)

\* href.match(/uddg=([^&]+)/): the captured group, <<>> when there is no match
uddgMatch(href) ==
    IF uddgIndex(href, 1) = 0 THEN <<>> ELSE uddgGroup(href, uddgIndex(href, 1))

\* the link taken from a found anchor's href: ok = FALSE when decodeURIComponent throws
resolvedLinkOf(href) ==
    IF uddgMatch(href) # <<>> THEN decodeURIComponent(uddgMatch(href))
    ELSE [ok |-> TRUE, val |-> href]

\* What a DOM query or an attribute read gives: None for a missing element or
\* a null attribute, Some(text) otherwise
None == <<>>

Some(x) == <<x>>

\* innerText() of each span#twisterText, trimmed, the empty ones dropped
RECURSIVE optionsOf(_)
optionsOf(twister) ==
    IF twister = <<>> THEN <<>>
    ELSE (IF trim(Head(twister)) # <<>> THEN <<trim(Head(twister))>> ELSE <<>>)
         \o optionsOf(Tail(twister))

\* A node matched by div[id*="itemInfo_"] is
\*   [nonAsin, span, anchor, href, byline, twister]: whether the NON_ASIN marker is
\*   there; the innerText of span[id*="itemName_"], of a[id*="itemName_"], the
\*   anchor's href and the innerText of the byline, each None or Some(text); and
\*   the innerTexts of the span#twisterText elements.

\* A NON_ASIN branch that reads the byline and the options too
nonAsinItem_ReadsAll(node) ==
    [itemName |-> IF node.span # None /\ ~urlRegexTest(trim(node.span[1]))
                  THEN trim(node.span[1]) ELSE <<>>,
     manufacturer |-> IF node.byline # None THEN trim(node.byline[1]) ELSE <<>>,
     options |-> optionsOf(node.twister),
     productLink |-> <<>>,
     nonAmazonLink |-> IF node.span # None /\ urlRegexTest(trim(node.span[1]))
                       THEN trim(node.span[1]) ELSE <<>>]

\* the NON_ASIN branch
nonAsinItem(node) ==
    [itemName |-> IF node.span # None /\ ~urlRegexTest(trim(node.span[1]))
                  THEN trim(node.span[1]) ELSE <<>>,
     manufacturer |-> <<>>,
     options |-> <<>>,
     productLink |-> <<>>,
     nonAmazonLink |-> IF node.span # None /\ urlRegexTest(trim(node.span[1]))
                       THEN trim(node.span[1]) ELSE <<>>]

\* A product link that falls back to the href as written when it does not parse
standardLink_Raw(node) ==
    IF node.anchor # None /\ node.href # None /\ node.href[1] # <<>>
    THEN (IF productLinkOf(node.href[1]).ok THEN productLinkOf(node.href[1]).val
          ELSE node.href[1])
    ELSE <<>>

\* productLink of a standard item: set when the anchor is there, has a non-empty
\* href, and the href parses
standardLink(node) ==
    IF node.anchor # None /\ node.href # None /\ node.href[1] # <<>>
       /\ productLinkOf(node.href[1]).ok
    THEN productLinkOf(node.href[1]).val
    ELSE <<>>

\* the branch of the standard items
standardItem(node) ==
    [itemName |-> IF node.anchor # None THEN trim(node.anchor[1]) ELSE <<>>,
     manufacturer |-> IF node.byline # None THEN trim(node.byline[1]) ELSE <<>>,
     options |-> optionsOf(node.twister),
     productLink |-> standardLink(node),
     nonAmazonLink |-> <<>>]

\* the fields the loop body has read when it reaches its last if
itemOf(node) == IF node.nonAsin THEN nonAsinItem(node) ELSE standardItem(node)

\* A loop body that pushes whatever it read
isKept_Always(item) == item = item

\* if (itemName || productLink || nonAmazonLink)
isKept(item) == item.itemName # <<>> \/ item.productLink # <<>> \/ item.nonAmazonLink # <<>>

\* items after the loop body ran on node
pushItem(its, node) == IF isKept(itemOf(node)) THEN Append(its, itemOf(node)) ELSE its

\* ------------------------------------------------------------------------
\* The environment: what the operator types and what the pages show
\* ------------------------------------------------------------------------

UrlA == <<"h", "t", "t", "p", "s", ":", "/", "/", "w", "w", "w", ".", "a", "m", "a", "z", "o",
    "n", ".", "c", "o", "m", "/", "h", "z", "/", "w", "i", "s", "h", "l", "i", "s", "t", "/",
    "l", "s", "/", "A">>

UrlB == <<"h", "t", "t", "p", "s", ":", "/", "/", "w", "w", "w", ".", "a", "m", "a", "z", "o",
    "n", ".", "c", "o", "m", "/", "h", "z", "/", "w", "i", "s", "h", "l", "i", "s", "t", "/",
    "l", "s", "/", "B">>

UrlHttp == <<"h", "t", "t", "p", ":", "/", "/", "w", "w", "w", ".", "a", "m", "a", "z", "o",
    "n", ".", "c", "o", "m", "/", "h", "z", "/", "w", "i", "s", "h", "l", "i", "s", "t", "/",
    "l", "s", "/", "A">>

\* The text typed at the URL prompt
Inputs ==
    { <<>>,
      <<" ">>,
      UrlHttp,
      UrlA,
      <<" ">> \o UrlA \o <<" ", ",">> \o UrlHttp,
      UrlA \o <<",">> \o UrlB,
      UrlA \o <<",", " ">> \o UrlA,
      UrlHttp \o <<",", ",">> \o UrlB }

\* The text typed at the CAPTCHA prompt
Answers == { <<"a", "b", "7">>, <<"X", "y">> }

S_MyList == <<" ", "M", "y", " ", "L", "i", "s", "t", " ">>

S_MyDashList == <<"M", "y", "-", "L", "i", "s", "t">>

S_Gifts == <<"G", "i", "f", "t", "s">>

\* innerText of span#profile-list-name on the wishlist pages
ListNames == { S_MyList, S_MyDashList, S_Gifts, DefaultName }

S_DeskLamp == <<"D", "e", "s", "k", " ", "L", "a", "m", "p">>

S_LampHref == <<"/", "d", "p", "/", "B", "0", "0", "0", "X", "?", "p", "s", "c", "=", "1", "&",
    "r", "e", "f", "_", "=", "a", "b", "c">>

S_MakerUrl == <<"h", "t", "t", "p", "s", ":", "/", "/", "m", "a", "k", "e", "r", ".", "e", "x",
    "a", "m", "p", "l", "e", "/", "l", "a", "m", "p">>

S_Black == <<"B", "l", "a", "c", "k">>

S_USPlug == <<"U", "S", " ", "P", "l", "u", "g">>

S_Acme == <<"A", "c", "m", "e", ",", " ", "I", "n", "c", ".">>

S_MugBlue == <<"M", "u", "g", ",", " ", "B", "l", "u", "e">>

S_HeSaid == <<"H", "e", " ", "s", "a", "i", "d", " ", "\"", "h", "i", "\"">>

S_Large == <<"L", "a", "r", "g", "e">>

S_BadHref == <<"h", "t", "t", "p", ":", "/", "/">>

S_GpHref == <<"/", "g", "p", "/", "x", "?", "t", "h", "=", "2", "&", "a", "=", "b", " ", "c">>

Node(nonAsin, span, anchor, href, byline, twister) ==
    [nonAsin |-> nonAsin, span |-> span, anchor |-> anchor, href |-> href,
     byline |-> byline, twister |-> twister]

\* a catalog item with two options and tracking parameters in its href
N_lamp == Node(FALSE, None, Some(S_DeskLamp), Some(S_LampHref), None, <<S_Black, S_USPlug>>)

\* the same with a byline
N_lampBy == Node(FALSE, None, Some(S_DeskLamp), Some(S_LampHref), Some(S_Acme), <<S_Black, S_USPlug>>)

\* a non-catalog item whose text is a URL
N_maker == Node(TRUE, Some(S_MakerUrl), None, None, None, <<>>)

\* a non-catalog item whose text is a title
N_quote == Node(TRUE, Some(<<" ">> \o S_HeSaid \o <<"\n">>), None, None, None, <<>>)

\* a catalog item whose href does not parse, with a blank option text
N_mug == Node(FALSE, None, Some(S_MugBlue), Some(S_BadHref), None, <<<<" ">>, S_Large>>)

\* a catalog item with a link and a blank title
N_link == Node(FALSE, None, Some(<<" ">>), Some(S_GpHref), Some(S_Acme), <<>>)

\* nodes that match div[id*="itemInfo_"] and carry nothing
N_noise == Node(FALSE, None, None, None, Some(S_Acme), <<S_Large>>)

N_blank == Node(TRUE, None, None, None, None, <<>>)

\* What page.$$('div[id*="itemInfo_"]') finds once the scrolling is over
Pages ==
    { <<>>,
      <<N_lamp, N_maker>>,
      <<N_lampBy, N_maker>>,
      <<N_noise, N_mug, N_blank, N_quote>>,
      <<N_link>> }

H_plain == <<"h", "t", "t", "p", "s", ":", "/", "/", "a", "c", "m", "e", ".", "e", "x", "a",
    "m", "p", "l", "e", "/">>

H_uddg == <<"/", "/", "d", "u", "c", "k", "d", "u", "c", "k", "g", "o", ".", "c", "o", "m",
    "/", "l", "/", "?", "u", "d", "d", "g", "=", "h", "t", "t", "p", "s", "%", "3", "A", "%",
    "2", "F", "%", "2", "F", "a", "c", "m", "e", ".", "e", "x", "a", "m", "p", "l", "e", "%",
    "2", "F", "p", "&", "r", "u", "t", "=", "a", "b", "c">>

H_bad == <<"/", "l", "/", "?", "u", "d", "d", "g", "=", "%">>

\* href of the first organic result of a search
Hrefs == { H_plain, H_uddg, H_bad }

\* ------------------------------------------------------------------------
\* main(): the state
\* ------------------------------------------------------------------------

VARIABLES
    pc,                     \* where main() stands
    inputUrl,               \* the answer to the URL prompt
    wishlistUrls,           \* the valid URLs kept from it
    idx,                    \* the index of the URL of the current iteration
    navigated,              \* the wishlist URLs page.goto was called with, in order
    exitCode,               \* the code of process.exit, -1 while the process lives
    browserClosed,          \* whether browser.close() was called
    captchaPrompt,          \* whether the challenge text was found for this URL
    prompts,                \* how many times the operator was asked for the CAPTCHA
    submitted,              \* the answers filled in and submitted for this URL
    captchaStillPresent,    \* the re-check after the submission
    wishlistName,
    wishlistNameElem,       \* what page.$ of the name element found: None or its text
    scrollCount,
    endOfListVisible,
    scrolls,                \* how many times the page was scrolled to the bottom
    continuousVisibleTime,
    sinceLastCheck,         \* Date.now() - lastCheck, in ms
    endOfList,              \* what the latest look for the end-of-list heading found
    itemElements,           \* the nodes found by page.$$
    k,                      \* the index of the node the extraction loop is at
    items,
    j,                      \* the index of the item the lookup loop is at
    searches,               \* the search queries navigated to for this URL
    files,                  \* the working directory: the set of [name, data]
    wrote,                  \* the writes so far: which URL wrote which file with what
    arg,                    \* the argument of a helper function checked on its own
    result                  \* and what the function returned for it

vars == <<pc, inputUrl, wishlistUrls, idx, navigated, exitCode, browserClosed,
          captchaPrompt, prompts, submitted, captchaStillPresent, wishlistName,
          wishlistNameElem,
          scrollCount, endOfListVisible, scrolls, continuousVisibleTime, sinceLastCheck,
          endOfList,
          itemElements, k, items, j, searches, files, wrote, arg, result>>

captchaVars == <<captchaPrompt, prompts, submitted, captchaStillPresent>>

nameVars == <<wishlistName, wishlistNameElem>>

scrollVars ==
    <<scrollCount, endOfListVisible, scrolls, continuousVisibleTime, sinceLastCheck, endOfList>>

itemVars == <<itemElements, k, items, j, searches>>

runVars == <<inputUrl, wishlistUrls, idx, navigated, exitCode, browserClosed>>

fileVars == <<files, wrote>>

helperVars == <<arg, result>>

maxScrolls == 30

\* the continuous visibility asked of the end-of-list heading, in ms
StableMs == 10000

\* the pause between two checks of it, in ms
PollMs == 500

\* the variables an iteration of the URL loop declares, as it declares them
LocalsFresh ==
    /\ captchaPrompt' = FALSE
    /\ prompts' = 0
    /\ submitted' = <<>>
    /\ captchaStillPresent' = FALSE
    /\ wishlistName' = DefaultName
    /\ wishlistNameElem' = None
    /\ scrollCount' = 0
    /\ endOfListVisible' = FALSE
    /\ scrolls' = 0
    /\ continuousVisibleTime' = 0
    /\ sinceLastCheck' = 0
    /\ endOfList' = "none"
    /\ itemElements' = <<>>
    /\ k' = 1
    /\ items' = <<>>
    /\ j' = 1
    /\ searches' = <<>>

\* the variables of main() and of its surroundings before the prompt
ProgramFresh ==
    /\ inputUrl = <<>>
    /\ wishlistUrls = <<>>
    /\ idx = 0
    /\ navigated = <<>>
    /\ exitCode = -1
    /\ browserClosed = FALSE
    /\ captchaPrompt = FALSE
    /\ prompts = 0
    /\ submitted = <<>>
    /\ captchaStillPresent = FALSE
    /\ wishlistName = DefaultName
    /\ wishlistNameElem = None
    /\ scrollCount = 0
    /\ endOfListVisible = FALSE
    /\ scrolls = 0
    /\ continuousVisibleTime = 0
    /\ sinceLastCheck = 0
    /\ endOfList = "none"
    /\ itemElements = <<>>
    /\ k = 1
    /\ items = <<>>
    /\ j = 1
    /\ searches = <<>>
    /\ files = {}
    /\ wrote = <<>>

Init ==
    /\ pc = "ask"
    /\ ProgramFresh
    /\ arg = <<>>
    /\ result = <<>>

\* ------------------------------------------------------------------------
\* main(): the URL prompt and its validation
\* ------------------------------------------------------------------------

\* A filter that lets every entry pass, as the first variant of the script did
isWishlistUrl_Any(url) == url = url

isWishlistUrl(url) == startsWith(url, WishlistPrefix)

\* .map(url => url.trim()).filter(url => url.startsWith(...))
RECURSIVE keepWishlistUrls(_)
keepWishlistUrls(entries) ==
    IF entries = <<>> THEN <<>>
    ELSE (IF isWishlistUrl(trim(Head(entries))) THEN <<trim(Head(entries))>> ELSE <<>>)
         \o keepWishlistUrls(Tail(entries))

wishlistUrlsOf(input) ==
    IF trim(input) # <<>> THEN keepWishlistUrls(split(input, ",")) ELSE <<>>

\* A prompt step that ends an empty run with code 0
AskUrls_ExitsZero ==
    /\ pc = "ask"
    /\ \E input \in Inputs :
        /\ inputUrl' = input
        /\ wishlistUrls' = wishlistUrlsOf(input)
        /\ IF wishlistUrlsOf(input) = <<>>
           THEN pc' = "exited" /\ exitCode' = 0 /\ idx' = 0
           ELSE pc' = "goto" /\ exitCode' = exitCode /\ idx' = 1
    /\ UNCHANGED <<helperVars, navigated, browserClosed, captchaVars, nameVars, scrollVars,
                   itemVars, fileVars>>

\* The operator answers the prompt; without a valid URL the process exits with 1
AskUrls ==
    /\ pc = "ask"
    /\ \E input \in Inputs :
        /\ inputUrl' = input
        /\ wishlistUrls' = wishlistUrlsOf(input)
        /\ IF wishlistUrlsOf(input) = <<>>
           THEN pc' = "exited" /\ exitCode' = 1 /\ idx' = 0
           ELSE pc' = "goto" /\ exitCode' = exitCode /\ idx' = 1
    /\ UNCHANGED <<helperVars, navigated, browserClosed, captchaVars, nameVars, scrollVars,
                   itemVars, fileVars>>

\* page.goto of the next wishlist URL, at the head of an iteration
Goto ==
    /\ pc = "goto"
    /\ navigated' = Append(navigated, wishlistUrls[idx])
    /\ LocalsFresh
    /\ pc' = "captchaWait"
    /\ UNCHANGED <<helperVars, inputUrl, wishlistUrls, idx, exitCode, browserClosed, fileVars>>

\* page.goto throws: main() rejects, the rejection is logged, nothing closes the browser
GotoThrows ==
    /\ pc = "goto"
    /\ navigated' = Append(navigated, wishlistUrls[idx])
    /\ LocalsFresh
    /\ pc' = "rejected"
    /\ UNCHANGED <<helperVars, inputUrl, wishlistUrls, idx, exitCode, browserClosed, fileVars>>

\* ------------------------------------------------------------------------
\* main(): the CAPTCHA block (one try/catch around all of it)
\* ------------------------------------------------------------------------

\* waitForSelector of the challenge text, 5 s: found, or the timeout's exception,
\* which the catch takes for "no CAPTCHA"
CaptchaWait ==
    /\ pc = "captchaWait"
    /\ \E found \in BOOLEAN :
        /\ captchaPrompt' = found
        /\ pc' = IF found THEN "captchaCapture" ELSE "name"
    /\ UNCHANGED <<helperVars, runVars, prompts, submitted, captchaStillPresent, nameVars,
                   scrollVars, itemVars, fileVars>>

\* page.$ of the container, its screenshot and the conversion to ASCII art: the
\* container may be missing (the if is skipped), the screenshot or the conversion
\* may throw (the catch resumes after the block)
CaptchaCapture ==
    /\ pc = "captchaCapture"
    /\ \E outcome \in {"shown", "noContainer", "throws"} :
        pc' = IF outcome = "shown" THEN "captchaAsk" ELSE "name"
    /\ UNCHANGED <<helperVars, runVars, captchaVars, nameVars, scrollVars, itemVars, fileVars>>

\* askQuestion, then page.$ of the input: with the input found the answer is
\* filled in upper case and submitted, without it the if is skipped
CaptchaAsk ==
    /\ pc = "captchaAsk"
    /\ prompts' = prompts + 1
    /\ \E userCaptcha \in Answers, inputFound \in BOOLEAN :
        IF inputFound
        THEN submitted' = Append(submitted, toUpperCase(userCaptcha)) /\ pc' = "captchaRecheck"
        ELSE submitted' = submitted /\ pc' = "name"
    /\ UNCHANGED <<helperVars, runVars, captchaPrompt, captchaStillPresent, nameVars,
                   scrollVars, itemVars, fileVars>>

\* A re-check that gives up the URL alone and goes on with the next one, the
\* behaviour a "continue" in place of process.exit(1) would have
CaptchaRecheck_SkipsUrl ==
    /\ pc = "captchaRecheck"
    /\ \E present \in BOOLEAN :
        /\ captchaStillPresent' = present
        /\ IF ~present THEN pc' = "name" /\ idx' = idx
           ELSE IF idx < Len(wishlistUrls) THEN pc' = "goto" /\ idx' = idx + 1
           ELSE pc' = "close" /\ idx' = idx
    /\ UNCHANGED <<helperVars, inputUrl, wishlistUrls, exitCode, navigated, browserClosed,
                   captchaPrompt, prompts, submitted, nameVars, scrollVars, itemVars,
                   fileVars>>

\* A re-check that asks again while the challenge is still there
CaptchaRecheck_Retries ==
    /\ pc = "captchaRecheck"
    /\ \E present \in BOOLEAN :
        /\ captchaStillPresent' = present
        /\ pc' = IF present THEN "captchaAsk" ELSE "name"
    /\ UNCHANGED <<helperVars, inputUrl, wishlistUrls, idx, exitCode, navigated, browserClosed,
                   captchaPrompt, prompts, submitted, nameVars, scrollVars, itemVars,
                   fileVars>>

\* after 3 s, page.$ of the challenge text: still there, process.exit(1)
CaptchaRecheck ==
    /\ pc = "captchaRecheck"
    /\ \E present \in BOOLEAN :
        /\ captchaStillPresent' = present
        /\ IF present
           THEN pc' = "exited" /\ exitCode' = 1
           ELSE pc' = "name" /\ exitCode' = exitCode
    /\ UNCHANGED <<helperVars, inputUrl, wishlistUrls, idx, navigated, browserClosed, captchaPrompt,
                   prompts, submitted, nameVars, scrollVars, itemVars, fileVars>>

\* ------------------------------------------------------------------------
\* main(): the list name
\* ------------------------------------------------------------------------

\* What the name step leaves in wishlistName for what page.$ found (None or the
\* element's text) and whether innerText threw: the default when the element is
\* missing or the catch ran, trimmed and sanitized text otherwise
wishlistNameOf(elem, throws) ==
    IF elem = None \/ throws THEN DefaultName ELSE sanitizeName(trim(elem[1]))

\* A name step without the check against the default name, as the earlier
\* variant of the script had it: the run goes on under the name "wishlist"
ListName_KeepsDefault ==
    /\ pc = "name"
    /\ \E elem \in {None} \cup {Some(t) : t \in ListNames}, throws \in BOOLEAN :
        /\ throws => elem # None
        /\ wishlistNameElem' = elem
        /\ wishlistName' = wishlistNameOf(elem, throws)
    /\ pc' = "scroll"
    /\ captchaPrompt' = FALSE
    /\ prompts' = 0
    /\ submitted' = <<>>
    /\ captchaStillPresent' = FALSE
    /\ UNCHANGED <<helperVars, inputUrl, wishlistUrls, idx, navigated, exitCode, browserClosed,
                   scrollVars, itemVars, fileVars>>

\* page.$ of span#profile-list-name and its innerText, then the check against
\* the default name. The constants of the CAPTCHA block are out of scope from
\* here on.
ListName ==
    /\ pc = "name"
    /\ \E elem \in {None} \cup {Some(t) : t \in ListNames}, throws \in BOOLEAN :
        /\ throws => elem # None
        /\ wishlistNameElem' = elem
        /\ wishlistName' = wishlistNameOf(elem, throws)
        /\ IF wishlistNameOf(elem, throws) = DefaultName
           THEN pc' = "exited" /\ exitCode' = 1
           ELSE pc' = "scroll" /\ exitCode' = exitCode
    /\ captchaPrompt' = FALSE
    /\ prompts' = 0
    /\ submitted' = <<>>
    /\ captchaStillPresent' = FALSE
    /\ UNCHANGED <<helperVars, inputUrl, wishlistUrls, idx, navigated, browserClosed,
                   scrollVars, itemVars, fileVars>>

\* ------------------------------------------------------------------------
\* main(): scrolling to the end of the list
\* ------------------------------------------------------------------------

\* A scroll loop whose condition is scrollCount <= maxScrolls: one round more
Scroll_OneMore ==
    /\ pc = "scroll"
    /\ scrollCount <= maxScrolls
    /\ \E seen \in {"visible", "hidden", "absent", "throws"} :
        /\ endOfList' = seen
        /\ IF seen = "visible"
           THEN /\ endOfListVisible' = TRUE
                /\ scrollCount' = scrollCount
                /\ scrolls' = scrolls + 1
                /\ pc' = "stabilize"
           ELSE /\ endOfListVisible' = endOfListVisible
                /\ scrollCount' = scrollCount + 1
                /\ scrolls' = scrolls + 1
                /\ pc' = IF scrollCount + 1 <= maxScrolls THEN "scroll" ELSE "query"
    /\ continuousVisibleTime' = 0
    /\ sinceLastCheck' = 0
    /\ UNCHANGED <<helperVars, runVars, captchaVars, nameVars, itemVars, fileVars>>

\* A scroll loop whose last round scrolls and does not act on what it sees
Scroll_LastRoundBlind ==
    /\ pc = "scroll"
    /\ scrollCount < maxScrolls
    /\ \E seen \in {"visible", "hidden", "absent", "throws"} :
        /\ endOfList' = seen
        /\ IF seen = "visible" /\ scrollCount + 1 < maxScrolls
           THEN /\ endOfListVisible' = TRUE
                /\ scrollCount' = scrollCount
                /\ scrolls' = scrolls + 1
                /\ pc' = "stabilize"
           ELSE /\ endOfListVisible' = endOfListVisible
                /\ scrollCount' = scrollCount + 1
                /\ scrolls' = scrolls + 1
                /\ pc' = IF scrollCount + 1 < maxScrolls THEN "scroll" ELSE "query"
    /\ continuousVisibleTime' = 0
    /\ sinceLastCheck' = 0
    /\ UNCHANGED <<helperVars, runVars, captchaVars, nameVars, itemVars, fileVars>>

\* One iteration of the scroll loop: scroll to the bottom, wait 1 s, look for the
\* heading ("throws" is a page.$ or isVisible that throws, which the loop's catch
\* ignores). A visible heading breaks the loop and starts the stabilization; the
\* 30th miss ends the loop without it. scrolls counts the scrolls to the bottom.
Scroll ==
    /\ pc = "scroll"
    /\ scrollCount < maxScrolls
    /\ \E seen \in {"visible", "hidden", "absent", "throws"} :
        /\ endOfList' = seen
        /\ IF seen = "visible"
           THEN /\ endOfListVisible' = TRUE
                /\ scrollCount' = scrollCount
                /\ scrolls' = scrolls + 1
                /\ pc' = "stabilize"
           ELSE /\ endOfListVisible' = endOfListVisible
                /\ scrollCount' = scrollCount + 1
                /\ scrolls' = scrolls + 1
                /\ pc' = IF scrollCount + 1 < maxScrolls THEN "scroll" ELSE "query"
    /\ continuousVisibleTime' = 0
    /\ sinceLastCheck' = 0
    /\ UNCHANGED <<helperVars, runVars, captchaVars, nameVars, itemVars, fileVars>>

\* continuousVisibleTime after one check of the heading
visibleTimeAfter(sum, since, seen) ==
    IF seen = "visible" THEN Min(sum + since, StableMs)
    ELSE IF seen = "hidden" THEN 0
    ELSE sum

\* Date.now() - lastCheck after one check of the heading and the 500 ms pause
sinceAfter(since, seen) ==
    IF seen = "absent" THEN Min(since + PollMs, StableMs) ELSE PollMs

\* One iteration of the stabilization loop: page.$ of the heading; if it is
\* there, the time since the last check is added when it is visible and the sum is
\* reset when it is not, and lastCheck moves; if it is not there, nothing of that
\* happens. Then 500 ms pass. Times at or above StableMs are told apart no further.
\* Nothing reads scrollCount after a break of the scroll loop: the model forgets
\* it, and the count of scrolls, from the first check on.
Stabilize ==
    /\ pc = "stabilize"
    /\ continuousVisibleTime < StableMs
    /\ \E seen \in {"visible", "hidden", "absent"} :
        /\ endOfList' = seen
        /\ continuousVisibleTime' = visibleTimeAfter(continuousVisibleTime, sinceLastCheck, seen)
        /\ sinceLastCheck' = sinceAfter(sinceLastCheck, seen)
        /\ pc' = IF visibleTimeAfter(continuousVisibleTime, sinceLastCheck, seen) < StableMs
                 THEN "stabilize" ELSE "query"
    /\ scrollCount' = 0
    /\ scrolls' = 0
    /\ UNCHANGED <<helperVars, runVars, captchaVars, nameVars, endOfListVisible, itemVars,
                   fileVars>>

\* ------------------------------------------------------------------------
\* main(): the extraction loop
\* ------------------------------------------------------------------------

\* page.$$ of the item containers
Query ==
    /\ pc = "query"
    /\ \E page \in Pages : itemElements' = page
    /\ items' = <<>>
    /\ k' = 1
    /\ pc' = "extract"
    /\ endOfList' = "none"
    /\ UNCHANGED <<helperVars, runVars, captchaVars, nameVars, scrollCount, endOfListVisible,
                   scrolls, continuousVisibleTime, sinceLastCheck, j, searches, fileVars>>

\* An iteration without the try/catch around new URL: a href that does not parse
\* rejects main()
Extract_AbortsOnBadLink ==
    /\ pc = "extract"
    /\ k <= Len(itemElements)
    /\ items' = pushItem(items, itemElements[k])
    /\ k' = k + 1
    /\ pc' = IF ~itemElements[k].nonAsin /\ itemElements[k].anchor # None
                /\ itemElements[k].href # None /\ itemElements[k].href[1] # <<>>
                /\ ~productLinkOf(itemElements[k].href[1]).ok
             THEN "rejected" ELSE pc
    /\ UNCHANGED <<helperVars, runVars, captchaVars, nameVars, scrollVars, itemElements,
                   j, searches, fileVars>>

\* One iteration of the extraction loop
Extract ==
    /\ pc = "extract"
    /\ k <= Len(itemElements)
    /\ items' = pushItem(items, itemElements[k])
    /\ k' = k + 1
    /\ UNCHANGED <<helperVars, pc, runVars, captchaVars, nameVars, scrollVars, itemElements,
                   j, searches, fileVars>>

\* An end of the extraction loop that goes to the CSV at once, without lookups
ExtractDone_SkipsLookups ==
    /\ pc = "extract"
    /\ k > Len(itemElements)
    /\ j' = 1
    /\ pc' = "write"
    /\ UNCHANGED <<helperVars, runVars, captchaVars, nameVars, scrollVars, itemElements, k,
                   items, searches, fileVars>>

\* The extraction loop is over, the lookup loop starts
ExtractDone ==
    /\ pc = "extract"
    /\ k > Len(itemElements)
    /\ j' = 1
    /\ pc' = "fallback"
    /\ UNCHANGED <<helperVars, runVars, captchaVars, nameVars, scrollVars, itemElements, k,
                   items, searches, fileVars>>

\* ------------------------------------------------------------------------
\* main(): the lookup loop
\* ------------------------------------------------------------------------

\* `${item.itemName} ${optionsQuery}`.trim()
searchQueryOf(item) == trim(item.itemName \o <<" ">> \o join(item.options, <<" ">>))

\* if (item.nonAmazonLink) continue
LookupSkip ==
    /\ pc = "fallback"
    /\ j <= Len(items)
    /\ items[j].nonAmazonLink # <<>>
    /\ j' = j + 1
    /\ UNCHANGED <<helperVars, pc, runVars, captchaVars, nameVars, scrollVars, itemElements, k,
                   items, searches, fileVars>>

\* What a lookup leaves in nonAmazonLink for what the search page showed: None
\* for no organic anchor within the timeout or an anchor without href, Some(href)
lookupResultOf(old, found) ==
    IF found = None \/ found[1] = <<>> THEN old
    ELSE IF resolvedLinkOf(found[1]).ok THEN resolvedLinkOf(found[1]).val
    ELSE old

\* A lookup without the skip rule: it runs for an item that has a link too
Lookup_NoSkip ==
    /\ pc = "fallback"
    /\ j <= Len(items)
    /\ searches' = Append(searches, searchQueryOf(items[j]))
    /\ \E found \in {None} \cup {Some(h) : h \in Hrefs} :
        items' = [items EXCEPT ![j].nonAmazonLink =
                     IF found = None THEN @ ELSE resolvedLinkOf(found[1]).val]
    /\ j' = j + 1
    /\ UNCHANGED <<helperVars, pc, runVars, captchaVars, nameVars, scrollVars, itemElements, k,
                   fileVars>>

\* One lookup: page.goto of the search, 3 s, waitForSelector of the first organic
\* anchor (10 s) and its href
Lookup ==
    /\ pc = "fallback"
    /\ j <= Len(items)
    /\ items[j].nonAmazonLink = <<>>
    /\ searches' = Append(searches, searchQueryOf(items[j]))
    /\ \E found \in {None} \cup {Some(h) : h \in Hrefs} :
        items' = [items EXCEPT ![j].nonAmazonLink = lookupResultOf(@, found)]
    /\ j' = j + 1
    /\ UNCHANGED <<helperVars, pc, runVars, captchaVars, nameVars, scrollVars, itemElements, k,
                   fileVars>>

\* page.goto of the search throws: main() rejects
LookupThrows ==
    /\ pc = "fallback"
    /\ j <= Len(items)
    /\ items[j].nonAmazonLink = <<>>
    /\ searches' = Append(searches, searchQueryOf(items[j]))
    /\ pc' = "rejected"
    /\ UNCHANGED <<helperVars, runVars, captchaVars, nameVars, scrollVars, itemElements, k,
                   items, j, fileVars>>

\* The lookup loop is over
LookupDone ==
    /\ pc = "fallback"
    /\ j > Len(items)
    /\ pc' = "write"
    /\ UNCHANGED <<helperVars, runVars, captchaVars, nameVars, scrollVars, itemVars, fileVars>>

\* ------------------------------------------------------------------------
\* main(): the CSV file, the end of the iteration and of the run
\* ------------------------------------------------------------------------

outputFileOf(name) == name \o S_csv

\* fs.writeFileSync: the file of that name is created or replaced
writeFileSync(dir, name, data) ==
    {f \in dir : f.name # name} \cup {[name |-> name, data |-> data]}

\* A write step whose csvRows outlives the iteration: the rows of the lists
\* before are still in it
WriteCsv_KeepsRows ==
    /\ pc = "write"
    /\ files' = writeFileSync(files, outputFileOf(wishlistName),
                              (IF wrote = <<>> THEN <<>> ELSE wrote[Len(wrote)].data \o <<"\n">>)
                                  \o csvDataOf(items))
    /\ wrote' = Append(wrote, [url |-> idx, name |-> outputFileOf(wishlistName),
                               data |-> (IF wrote = <<>> THEN <<>>
                                         ELSE wrote[Len(wrote)].data \o <<"\n">>)
                                            \o csvDataOf(items)])
    /\ IF idx < Len(wishlistUrls)
       THEN idx' = idx + 1 /\ pc' = "goto"
       ELSE idx' = idx /\ pc' = "close"
    /\ UNCHANGED <<helperVars, inputUrl, wishlistUrls, navigated, exitCode, browserClosed,
                   captchaVars, nameVars, scrollVars, itemVars>>

\* csvData is built and written, and the iteration ends
WriteCsv ==
    /\ pc = "write"
    /\ files' = writeFileSync(files, outputFileOf(wishlistName), csvDataOf(items))
    /\ wrote' = Append(wrote, [url |-> idx, name |-> outputFileOf(wishlistName),
                               data |-> csvDataOf(items)])
    /\ IF idx < Len(wishlistUrls)
       THEN idx' = idx + 1 /\ pc' = "goto"
       ELSE idx' = idx /\ pc' = "close"
    /\ UNCHANGED <<helperVars, inputUrl, wishlistUrls, navigated, exitCode, browserClosed,
                   captchaVars, nameVars, scrollVars, itemVars>>

\* browser.close(); main() resolves and the process ends with code 0
Close ==
    /\ pc = "close"
    /\ browserClosed' = TRUE
    /\ exitCode' = 0
    /\ pc' = "done"
    /\ UNCHANGED <<helperVars, inputUrl, wishlistUrls, idx, navigated, captchaVars, nameVars,
                   scrollVars, itemVars, fileVars>>

Next ==
    \/ AskUrls
    \/ Goto
    \/ GotoThrows
    \/ CaptchaWait
    \/ CaptchaCapture
    \/ CaptchaAsk
    \/ CaptchaRecheck
    \/ ListName
    \/ Scroll
    \/ Stabilize
    \/ Query
    \/ Extract
    \/ ExtractDone
    \/ LookupSkip
    \/ Lookup
    \/ LookupThrows
    \/ LookupDone
    \/ WriteCsv
    \/ Close

Spec == Init /\ [][Next]_vars


\* ------------------------------------------------------------------------
\* The CSV encoder on its own: the write step of an iteration whose batch is
\* drawn from bounded sets
\* ------------------------------------------------------------------------

MaxBatch == 2

MaxOptionCount == 2

OptionTexts == {S_Black, S_HeSaid}

OptionLists == UNION {[1..n -> OptionTexts] : n \in 0..MaxOptionCount}

ItemPool ==
    {[itemName |-> S_MugBlue, manufacturer |-> <<>>, options |-> o, productLink |-> <<>>,
      nonAmazonLink |-> l] : o \in OptionLists, l \in {<<>>, S_MakerUrl}}

Batches == UNION {[1..n -> ItemPool] : n \in 0..MaxBatch}

InitCsv ==
    /\ pc = "write"
    /\ inputUrl = UrlA
    /\ wishlistUrls = <<UrlA>>
    /\ idx = 1
    /\ navigated = <<UrlA>>
    /\ exitCode = -1
    /\ browserClosed = FALSE
    /\ captchaPrompt = FALSE
    /\ prompts = 0
    /\ submitted = <<>>
    /\ captchaStillPresent = FALSE
    /\ wishlistName = S_Gifts
    /\ wishlistNameElem = Some(S_Gifts)
    /\ scrollCount = 0
    /\ endOfListVisible = TRUE
    /\ scrolls = 0
    /\ continuousVisibleTime = StableMs
    /\ sinceLastCheck = PollMs
    /\ endOfList = "none"
    /\ itemElements = <<>>
    /\ k = 1
    /\ items \in Batches
    /\ j = Len(items) + 1
    /\ searches = <<>>
    /\ files = {}
    /\ wrote = <<>>
    /\ arg = <<>>
    /\ result = <<>>

NextCsv ==
    \/ WriteCsv
    \/ Close

SpecCsv == InitCsv /\ [][NextCsv]_vars

\* ------------------------------------------------------------------------
\* escapeCSV on its own: a field drawn from bounded sets, and the call
\* ------------------------------------------------------------------------

MaxFieldLen == 4

EscapeAlphabet == {"a", "\"", ",", "\n"}

EscapeFields ==
    UNION {[1..n -> EscapeAlphabet] : n \in 0..MaxFieldLen} \cup {S_MugBlue, S_HeSaid}

InitEscape ==
    /\ pc = "escape"
    /\ ProgramFresh
    /\ arg \in EscapeFields
    /\ result = <<>>

Escape ==
    /\ pc = "escape"
    /\ result' = escapeCSV(arg)
    /\ pc' = "escaped"
    /\ UNCHANGED <<arg, runVars, captchaVars, nameVars, scrollVars, itemVars, fileVars>>

NextEscape == Escape

SpecEscape == InitEscape /\ [][NextEscape]_vars


\* ------------------------------------------------------------------------
\* The scroll and stabilization loops on their own, from the state the name
\* step leaves on the first URL to the start of the extraction
\* ------------------------------------------------------------------------

InitDetector ==
    /\ pc = "scroll"
    /\ inputUrl \in {input \in Inputs : wishlistUrlsOf(input) # <<>>}
    /\ wishlistUrls = wishlistUrlsOf(inputUrl)
    /\ idx = 1
    /\ navigated = <<wishlistUrls[1]>>
    /\ exitCode = -1
    /\ browserClosed = FALSE
    /\ captchaPrompt = FALSE
    /\ prompts = 0
    /\ submitted = <<>>
    /\ captchaStillPresent = FALSE
    /\ wishlistNameElem \in {Some(t) : t \in ListNames \ {DefaultName}}
    /\ wishlistName = sanitizeName(trim(wishlistNameElem[1]))
    /\ scrollCount = 0
    /\ endOfListVisible = FALSE
    /\ scrolls = 0
    /\ continuousVisibleTime = 0
    /\ sinceLastCheck = 0
    /\ endOfList = "none"
    /\ itemElements = <<>>
    /\ k = 1
    /\ items = <<>>
    /\ j = 1
    /\ searches = <<>>
    /\ files = {}
    /\ wrote = <<>>
    /\ arg = <<>>
    /\ result = <<>>

NextDetector == Scroll \/ Stabilize \/ Query

SpecDetector == InitDetector /\ [][NextDetector]_vars

\* The loops with every await returning in the end: an iteration that can run
\* is not put off forever
FairDetector == SpecDetector /\ WF_vars(NextDetector)

\* ------------------------------------------------------------------------
\* The extraction loop on its own, over pages of a bounded node followed by
\* the Desk Lamp node, from page.$$ to the start of the lookup loop
\* ------------------------------------------------------------------------

\* innerTexts of a non-catalog item's span
SpanTexts == {
    S_MakerUrl,
    <<"H", "T", "T", "P", ":", "/", "/", "M", "a", "k", "e", "r", ".", "e", "x", "a", "m", "p", "l", "e", "/", "x">>,
    <<"h", "t", "t", "p", ":", "/", "/", "a", " ", "b">>,
    <<"h", "t", "t", "p", ":", "/", "/">>,
    <<" ", "G", "i", "f", "t", " ", "c", "a", "r", "d", "\n">>,
    <<" ">> }

TwisterLists == UNION {[1..n -> {<<" ">>, S_Large, <<"M", "a", "t", "t", "e", " ", "B", "l", "a", "c", "k">>}] : n \in 0..MaxOptionCount}

\* nodes with the NON_ASIN marker, bare or with the parts of a catalog item
NonCatalogNodes ==
    {Node(TRUE, span, None, None, None, <<>>) : span \in {None} \cup {Some(t) : t \in SpanTexts}}
        \cup {Node(TRUE, span, Some(S_MugBlue), Some(S_LampHref), Some(S_Acme), <<S_Large>>) :
                 span \in {None} \cup {Some(t) : t \in SpanTexts}}

\* nodes without the marker
CatalogNodes ==
    {Node(FALSE, span, anchor, href, byline, twister) :
        span \in {None, Some(S_MakerUrl)},
        anchor \in {None, Some(<<" ">>), Some(<<" ">> \o S_MugBlue)},
        href \in {None, Some(<<>>), Some(S_BadHref), Some(S_GpHref)},
        byline \in {None, Some(S_Acme \o <<" ">>)},
        twister \in TwisterLists}

InitExtract ==
    /\ pc = "extract"
    /\ inputUrl = UrlA
    /\ wishlistUrls = <<UrlA>>
    /\ idx = 1
    /\ navigated = <<UrlA>>
    /\ exitCode = -1
    /\ browserClosed = FALSE
    /\ captchaPrompt = FALSE
    /\ prompts = 0
    /\ submitted = <<>>
    /\ captchaStillPresent = FALSE
    /\ wishlistName = S_Gifts
    /\ wishlistNameElem = Some(S_Gifts)
    /\ scrollCount = 0
    /\ endOfListVisible = TRUE
    /\ scrolls = 0
    /\ continuousVisibleTime = StableMs
    /\ sinceLastCheck = PollMs
    /\ endOfList = "none"
    /\ itemElements \in {<<node, N_lamp>> : node \in NonCatalogNodes \cup CatalogNodes}
    /\ k = 1
    /\ items = <<>>
    /\ j = 1
    /\ searches = <<>>
    /\ files = {}
    /\ wrote = <<>>
    /\ arg = <<>>
    /\ result = <<>>

NextExtract == Extract \/ ExtractDone

SpecExtract == InitExtract /\ [][NextExtract]_vars

\* ------------------------------------------------------------------------
\* The result of one lookup on its own, over bounded hrefs of the first organic
\* anchor, for an item without an external link
\* ------------------------------------------------------------------------

MaxTargetLen == 3

TargetAlphabet == {"x", "%", "2", "0", "&"}

\* what follows the name of the last parameter of the href
Targets == UNION {[1..n -> TargetAlphabet] : n \in 0..MaxTargetLen}

\* the href up to the value of its last parameter
ResultStems == {
    <<"/", "/", "d", "u", "c", "k", "d", "u", "c", "k", "g", "o", ".", "c", "o", "m", "/", "l", "/", "?", "u", "d", "d", "g", "=">>,
    <<"h", "t", "t", "p", "s", ":", "/", "/", "a", "c", "m", "e", ".", "e", "x", "a", "m", "p", "l", "e", "/", "?", "q", "=">>,
    <<"/", "l", "/", "?", "r", "u", "t", "=", "1", "&", "u", "d", "d", "g", "=">> }

\* what the search page showed: no organic anchor within the timeout, an anchor
\* without href, or an anchor with one
Founds ==
    {None, Some(<<>>)} \cup {Some(h) : h \in Hrefs}
        \cup {Some(stem \o t) : stem \in ResultStems, t \in Targets}

InitLookup ==
    /\ pc = "lookup"
    /\ ProgramFresh
    /\ arg \in Founds
    /\ result = <<>>

\* lines 344-360 for an item whose nonAmazonLink is empty
Resolve ==
    /\ pc = "lookup"
    /\ result' = lookupResultOf(<<>>, arg)
    /\ pc' = "resolved"
    /\ UNCHANGED <<arg, runVars, captchaVars, nameVars, scrollVars, itemVars, fileVars>>

NextLookup == Resolve

SpecLookup == InitLookup /\ [][NextLookup]_vars

\* ------------------------------------------------------------------------
\* The product-link clean-up on its own, over bounded hrefs: the clean-up of an
\* href, and the clean-up of the link it gave
\* ------------------------------------------------------------------------

MaxParams == 3

\* query parameters as an href writes them, with the name and value they stand for
LinkParams == {
    [text |-> <<"p", "s", "c", "=", "1">>, name |-> <<"p", "s", "c">>, value |-> <<"1">>],
    [text |-> <<"r", "e", "f", "_", "=", "x">>, name |-> <<"r", "e", "f", "_">>, value |-> <<"x">>],
    [text |-> <<"t", "h", "=", "2">>, name |-> <<"t", "h">>, value |-> <<"2">>],
    [text |-> <<"t", "h", "=", "1">>, name |-> <<"t", "h">>, value |-> <<"1">>],
    [text |-> <<"a", "=", "b">>, name |-> <<"a">>, value |-> <<"b">>],
    [text |-> <<"q", "=", "b", "%", "2", "0", "c">>, name |-> <<"q">>, value |-> <<"b", " ", "c">>],
    [text |-> <<"x">>, name |-> <<"x">>, value |-> <<>>] }

LinkQueries == UNION {[1..n -> {m.text : m \in LinkParams}] : n \in 0..MaxParams}

\* what comes before the query: a path on the site, a page of the site in full,
\* a page of another site, and a host that does not parse
LinkStems == {
    <<"/", "d", "p", "/", "B", "0", "1">>,
    <<"h", "t", "t", "p", "s", ":", "/", "/", "w", "w", "w", ".", "a", "m", "a", "z", "o", "n", ".", "c", "o", "m", "/", "d", "p", "/", "B", "0", "1">>,
    <<"H", "T", "T", "P", ":", "/", "/", "S", "h", "o", "p", ".", "E", "x", "a", "m", "p", "l", "e", "/", "p">>,
    <<"h", "t", "t", "p", "s", ":", "/", "/", "b", "a", "d", " ", "h", "o", "s", "t", "/", "p">> }

LinkFragments == {<<>>, <<"#", "t", "o", "p">>}

hrefOf(stem, query, fragment) ==
    stem \o (IF query = <<>> THEN <<>> ELSE <<"?">> \o join(query, <<"&">>)) \o fragment

LinkHrefs == {hrefOf(s, q, f) : s \in LinkStems, q \in LinkQueries, f \in LinkFragments}

InitLink ==
    /\ pc = "link"
    /\ ProgramFresh
    /\ arg \in LinkHrefs
    /\ result = <<>>

\* the clean-up of the href
CleanLink ==
    /\ pc = "link"
    /\ result' = productLinkOf(arg)
    /\ pc' = "cleaned"
    /\ UNCHANGED <<arg, runVars, captchaVars, nameVars, scrollVars, itemVars, fileVars>>

\* the clean-up of the link the first one gave
CleanAgain ==
    /\ pc = "cleaned"
    /\ result.ok
    /\ arg' = result.val
    /\ result' = productLinkOf(result.val)
    /\ pc' = "recleaned"
    /\ UNCHANGED <<runVars, captchaVars, nameVars, scrollVars, itemVars, fileVars>>

NextLink == CleanLink \/ CleanAgain

SpecLink == InitLink /\ [][NextLink]_vars

\* ------------------------------------------------------------------------
\* Properties of the run
\* ------------------------------------------------------------------------

\* The process is over: it exited, or main() resolved after closing the browser
ProcessEnded == exitCode # -1

\* No CSV file was written in the iteration of the i-th URL
NoFileFor(i) == \A n \in DOMAIN wrote : wrote[n].url # i

\* Every earlier iteration wrote its file before the run moved on
EarlierWritten(i) == \A u \in 1..(i - 1) : \E n \in DOMAIN wrote : wrote[n].url = u

\* The process exited in the name step of an iteration
NameExit == pc = "exited" /\ idx >= 1 /\ ~captchaStillPresent

C3_Entries == {trim(e) : e \in Range(split(inputUrl, ","))}

C3_ValidEntries ==
    {u \in C3_Entries : Len(u) >= Len(WishlistPrefix)
                        /\ \A i \in DOMAIN WishlistPrefix : u[i] = WishlistPrefix[i]}

\* C3: the list of URLs is the comma-separated entries of the answer, trimmed,
\* that start with the wishlist prefix, the others being skipped; only such
\* entries are navigated to; when there is none, the process exits with code 1
\* before any navigation and without any file, and else the run starts.
C3_UrlListValidation ==
    /\ \A n \in DOMAIN navigated : navigated[n] \in C3_ValidEntries
    /\ pc # "ask" =>
        /\ Range(wishlistUrls) = C3_ValidEntries
        /\ C3_ValidEntries = {} =>
            /\ pc = "exited"
            /\ exitCode = 1
            /\ navigated = <<>>
            /\ files = {}
        /\ C3_ValidEntries # {} => ~(pc = "exited" /\ idx = 0)

\* A run completed on an answer with an entry that is not a wishlist URL
C3_Witness ==
    /\ pc = "done"
    /\ C3_Entries # C3_ValidEntries
    /\ Len(navigated) = Len(wishlistUrls)

C5_OneFilePerUrl ==
    pc = "done" =>
        /\ Cardinality(files) = Len(wishlistUrls)
        /\ \A n \in DOMAIN wrote :
               [name |-> wrote[n].name, data |-> wrote[n].data] \in files

\* ------------------------------------------------------------------------
\* Reading a CSV text back, the way a reader of the file does: fields separated
\* by commas, records by line feeds, a field in double quotes running to its
\* closing quote with "" standing for one quote
\* ------------------------------------------------------------------------

\* the end of the field read from position i on: the first comma or line feed
\* outside quotes, or the end of the text
RECURSIVE CsvFieldEnd(_, _, _)
CsvFieldEnd(s, i, inQuotes) ==
    IF i > Len(s) THEN i
    ELSE IF s[i] = "\"" THEN CsvFieldEnd(s, i + 1, ~inQuotes)
    ELSE IF ~inQuotes /\ s[i] \in {",", "\n"} THEN i
    ELSE CsvFieldEnd(s, i + 1, inQuotes)

\* the text between the quotes of a quoted field, "" read as one quote
RECURSIVE CsvUndouble(_)
CsvUndouble(inner) ==
    IF inner = <<>> THEN <<>>
    ELSE IF Len(inner) >= 2 /\ inner[1] = "\"" /\ inner[2] = "\""
    THEN <<"\"">> \o CsvUndouble(SubSeq(inner, 3, Len(inner)))
    ELSE <<inner[1]>> \o CsvUndouble(Tail(inner))

\* the value of a field as it stands in the text
CsvValue(f) ==
    IF Len(f) >= 2 /\ f[1] = "\"" /\ f[Len(f)] = "\""
    THEN CsvUndouble(SubSeq(f, 2, Len(f) - 1))
    ELSE f

\* the records of s from the field at p on, that field ending before e
RECURSIVE CsvFrom(_, _, _, _, _)
CsvFrom(s, p, e, row, rows) ==
    IF e > Len(s) THEN Append(rows, Append(row, CsvValue(SubSeq(s, p, e - 1))))
    ELSE IF s[e] = ","
    THEN CsvFrom(s, e + 1, CsvFieldEnd(s, e + 1, FALSE),
                 Append(row, CsvValue(SubSeq(s, p, e - 1))), rows)
    ELSE CsvFrom(s, e + 1, CsvFieldEnd(s, e + 1, FALSE), <<>>,
                 Append(rows, Append(row, CsvValue(SubSeq(s, p, e - 1)))))

CsvRead(s) == CsvFrom(s, 1, CsvFieldEnd(s, 1, FALSE), <<>>, <<>>)

\* The iteration of the current locals has just written its file
JustWritten ==
    /\ pc \in {"goto", "close"}
    /\ wrote # <<>>
    /\ wrote[Len(wrote)].url = (IF pc = "goto" THEN idx - 1 ELSE idx)

LastWritten == wrote[Len(wrote)]

\* ------------------------------------------------------------------------
\* C6
\* ------------------------------------------------------------------------

\* (a) the scroll loop used its 30 rounds without seeing the heading
C6_BudgetExhausted == scrollCount = maxScrolls /\ ~endOfListVisible

\* (b) a catalog node whose href does not parse
C6_BadLink(node) ==
    /\ ~node.nonAsin
    /\ node.anchor # None
    /\ node.href # None
    /\ node.href[1] # <<>>
    /\ ~parseURL(node.href[1]).ok

\* (c) a catalog node without byline or without options
C6_FieldMissing(node) == ~node.nonAsin /\ (node.byline = None \/ optionsOf(node.twister) = <<>>)

\* (d) a lookup that ran and left the item without a link
C6_LookupMissed ==
    \E n \in DOMAIN items :
        /\ items[n].nonAmazonLink = <<>>
        /\ pc = "fallback" => n < j

C6_Recoverable ==
    \/ C6_BudgetExhausted
    \/ \E n \in 1..(k - 1) : C6_BadLink(itemElements[n]) \/ C6_FieldMissing(itemElements[n])
    \/ C6_LookupMissed

\* main() rejected at the page.goto of a wishlist URL, or of a search
C6_RejectedAtNavigation ==
    \/ itemElements = <<>> /\ items = <<>> /\ searches = <<>> /\ wishlistName = DefaultName
    \/ /\ k = Len(itemElements) + 1
       /\ j \in DOMAIN items
       /\ searches # <<>>
       /\ searches[Len(searches)] = searchQueryOf(items[j])

\* C6: past the CAPTCHA and name steps, an exhausted scroll budget, a malformed
\* product link, a missing manufacturer or options and a lookup without result,
\* in any combination, never end the run or the iteration: the process does not
\* exit, each loop stands at a node or item it can go on with or at its end, the
\* extraction runs over every node, and when the iteration is over its CSV file has been written with
\* the rows of the items; the only aborts are navigations that throw.
C6_RecoverableNeverAbort ==
    /\ (pc \in {"query", "extract", "fallback", "write"} /\ C6_Recoverable) =>
        /\ exitCode = -1
        /\ pc = "extract" => k \in 1..(Len(itemElements) + 1)
        /\ pc = "fallback" => j \in 1..(Len(items) + 1)
    /\ C6_BudgetExhausted => pc \in {"query", "extract", "fallback", "write", "goto", "close",
                                     "done", "rejected"}
    /\ pc = "rejected" => C6_RejectedAtNavigation
    /\ pc = "exited" => itemElements = <<>> /\ scrollCount = 0 /\ ~endOfListVisible
    /\ pc \in {"fallback", "write"} => k = Len(itemElements) + 1
    /\ EarlierWritten(idx)
    /\ pc \in {"close", "done"} => ~NoFileFor(idx)
    /\ JustWritten =>
        /\ k = Len(itemElements) + 1
        /\ j = Len(items) + 1
        /\ Len(CsvRead(LastWritten.data)) = 1 + Len(items)
        /\ [name |-> LastWritten.name, data |-> LastWritten.data] \in files

\* A file written after all four: the budget ran out, a href did not parse, a
\* byline was missing and a lookup found nothing
C6_Witness ==
    /\ JustWritten
    /\ C6_BudgetExhausted
    /\ \E n \in DOMAIN itemElements : C6_BadLink(itemElements[n])
    /\ \E n \in DOMAIN itemElements : C6_FieldMissing(itemElements[n])
    /\ C6_LookupMissed

\* ------------------------------------------------------------------------
\* C7
\* ------------------------------------------------------------------------

S_LampLink == <<"h", "t", "t", "p", "s", ":", "/", "/", "w", "w", "w", ".", "a", "m", "a", "z",
    "o", "n", ".", "c", "o", "m", "/", "d", "p", "/", "B", "0", "0", "0", "X", "?", "t", "h",
    "=", "1">>

H_decoded == <<"h", "t", "t", "p", "s", ":", "/", "/", "a", "c", "m", "e", ".", "e", "x", "a",
    "m", "p", "l", "e", "/", "p">>

S_AcmeQ == <<"\"", "A", "c", "m", "e", ",", " ", "I", "n", "c", ".", "\"">>

C7_Header == <<"I", "t", "e", "m", " ", "N", "a", "m", "e", ",", "M", "a", "n", "u", "f", "a",
    "c", "t", "u", "r", "e", "r", ",", "P", "r", "o", "d", "u", "c", "t", " ", "L", "i", "n",
    "k", ",", "N", "o", "n", "-", "A", "m", "a", "z", "o", "n", " ", "L", "i", "n", "k", ",",
    "O", "p", "t", "i", "o", "n", " ", "1", ",", "O", "p", "t", "i", "o", "n", " ", "2">>

C7_Row2 == <<",", ",", ",", "h", "t", "t", "p", "s", ":", "/", "/", "m", "a", "k", "e", "r",
    ".", "e", "x", "a", "m", "p", "l", "e", "/", "l", "a", "m", "p", ",", ",">>

C7_Options == <<"B", "l", "a", "c", "k", ",", "U", "S", " ", "P", "l", "u", "g">>

S_LampQuery == <<"D", "e", "s", "k", " ", "L", "a", "m", "p", " ", "B", "l", "a", "c", "k",
    " ", "U", "S", " ", "P", "l", "u", "g">>

\* The nodes of the scenario: the lamp (with or without a byline), then the maker's URL
C7_Scenario == itemElements \in {<<N_lamp, N_maker>>, <<N_lampBy, N_maker>>}

C7_Manufacturer == IF itemElements[1].byline = None THEN <<>> ELSE S_AcmeQ

\* the first data row with the given fourth field
C7_Row1(link) ==
    S_DeskLamp \o <<",">> \o C7_Manufacturer \o <<",">> \o S_LampLink \o <<",">> \o link
        \o <<",">> \o C7_Options

C7_Body(link) == C7_Header \o <<"\n">> \o C7_Row1(link) \o <<"\n">> \o C7_Row2

\* C7, as the specification words it: the file written for the scenario has the
\* header with Option 1 and Option 2 and two data rows, row 1 = Desk Lamp,
\* <manufacturer-or-empty>,https://www.amazon.com/dp/B000X?th=1,,Black,US Plug
\* with an empty fourth field, row 2 = ,,,https://maker.example/lamp,,
C7_ScenarioRowsEmptyLink == (JustWritten /\ C7_Scenario) => LastWritten.data = C7_Body(<<>>)

\* C7, as the program has it: the same two rows, except that the fourth field
\* of row 1 is the link the lookup resolved for the lamp, which has no link of
\* its own: a plain result href, a decoded uddg target, or nothing when the
\* lookup found nothing usable; the lookup ran once, for "Desk Lamp Black US
\* Plug", and the second item, which has its link, was skipped.
C7_ScenarioRows ==
    (JustWritten /\ C7_Scenario) =>
        /\ Len(items) = 2
        /\ items[1].nonAmazonLink \in {<<>>, H_plain, H_decoded}
        /\ LastWritten.data = C7_Body(items[1].nonAmazonLink)
        /\ searches = <<S_LampQuery>>

\* The scenario's file written after a lookup that resolved a link for the lamp
C7_Witness ==
    /\ JustWritten
    /\ C7_Scenario
    /\ items[1].nonAmazonLink = H_decoded

\* ------------------------------------------------------------------------
\* C8
\* ------------------------------------------------------------------------

\* A node gives a name, a product link or an external link
C8_Yields(node) ==
    IF node.nonAsin
    THEN node.span # None /\ trim(node.span[1]) # <<>>
    ELSE /\ node.anchor # None
         /\ \/ trim(node.anchor[1]) # <<>>
            \/ node.href # None /\ node.href[1] # <<>> /\ parseURL(node.href[1]).ok

C8_AllEmpty(name, productLink, externalLink) ==
    name = <<>> /\ productLink = <<>> /\ externalLink = <<>>

\* C8: at every point of the run no item of the batch has its name, product
\* link and external link all empty, and no data row of a written CSV has;
\* the batch holds exactly one item for each processed node that yields one of
\* the three, none for the others, and the extraction raises no error.
C8_Retention ==
    /\ \A n \in DOMAIN items :
           ~C8_AllEmpty(items[n].itemName, items[n].productLink, items[n].nonAmazonLink)
    /\ pc \in {"extract", "fallback", "write"} =>
        /\ Len(items) = Cardinality({n \in 1..(k - 1) : C8_Yields(itemElements[n])})
        /\ exitCode = -1
    /\ pc = "rejected" => C6_RejectedAtNavigation
    /\ JustWritten =>
        \A r \in 2..Len(CsvRead(LastWritten.data)) :
            ~C8_AllEmpty(CsvRead(LastWritten.data)[r][1], CsvRead(LastWritten.data)[r][3],
                         CsvRead(LastWritten.data)[r][4])

\* A page of four nodes, two of them empty, after its extraction
C8_Witness ==
    /\ pc = "fallback"
    /\ Len(itemElements) = 4
    /\ Len(items) = 2
    /\ \E n \in DOMAIN itemElements : ~C8_Yields(itemElements[n])

\* ------------------------------------------------------------------------
\* C9
\* ------------------------------------------------------------------------

C9_FixedColumns == <<S_ItemName, S_Manufacturer, S_ProductLink, S_NonAmazonLink>>

\* rows, read back from a CSV text, are the header and one row per item of its,
\* all of the width of a header of 4 + m columns, m the largest option count
C9_Width(rows, its) ==
    /\ Len(rows) = 1 + Len(its)
    /\ Len(rows[1]) >= 4
    /\ SubSeq(rows[1], 1, 4) = C9_FixedColumns
    /\ \A i \in 1..(Len(rows[1]) - 4) : rows[1][4 + i] = S_Option \o NatToString(i)
    /\ \A n \in DOMAIN its : Len(its[n].options) <= Len(rows[1]) - 4
    /\ its = <<>> => Len(rows[1]) = 4
    /\ its # <<>> => \E n \in DOMAIN its : Len(its[n].options) = Len(rows[1]) - 4
    /\ \A n \in DOMAIN its :
        /\ Len(rows[n + 1]) = Len(rows[1])
        /\ \A i \in 1..(Len(rows[1]) - 4) :
               rows[n + 1][4 + i] = IF i <= Len(its[n].options) THEN its[n].options[i] ELSE <<>>

\* C9: the header of every written CSV has exactly 4 + maxOptions columns, the
\* four fixed ones and Option 1 .. Option maxOptions, maxOptions being the
\* largest option count of the batch's items (0 for an empty batch), and every
\* data row has as many fields, the item's options in order and then empty
\* strings up to that width.
C9_CsvWidth == JustWritten => C9_Width(CsvRead(LastWritten.data), items)

\* A file written for a batch of two items, the first with fewer options than
\* the second
C9_Witness ==
    /\ JustWritten
    /\ Len(items) = 2
    /\ Len(items[1].options) = 1
    /\ Len(items[2].options) = 2

\* ------------------------------------------------------------------------
\* C10
\* ------------------------------------------------------------------------

S_MugBlueQ == <<"\"", "M", "u", "g", ",", " ", "B", "l", "u", "e", "\"">>

S_HeSaidQ == <<"\"", "H", "e", " ", "s", "a", "i", "d", " ", "\"", "\"", "h", "i", "\"", "\"",
    "\"">>

\* the number of double quotes of f before position i
C10_QuotesBefore(f, i) == Cardinality({q \in 1..(i - 1) : f[q] = "\""})

C10_Special(f) == \E i \in DOMAIN f : f[i] \in {"\"", ",", "\n"}

\* out is f between two double quotes, each character at its place shifted by
\* the quotes before it, each double quote followed by a second one
C10_Wrapped(f, out) ==
    /\ Len(out) = Len(f) + 2 + C10_QuotesBefore(f, Len(f) + 1)
    /\ out[1] = "\""
    /\ out[Len(out)] = "\""
    /\ \A i \in DOMAIN f :
        /\ out[1 + i + C10_QuotesBefore(f, i)] = f[i]
        /\ f[i] = "\"" => out[2 + i + C10_QuotesBefore(f, i)] = "\""

\* C10: escapeCSV returns the field between double quotes, every double quote
\* of it doubled, when the field has a double quote, a comma or a line feed, and
\* the field itself otherwise; Mug, Blue gives "Mug, Blue" and He said "hi"
\* gives "He said ""hi""".
C10_Escaping ==
    pc = "escaped" =>
        /\ C10_Special(arg) => C10_Wrapped(arg, result)
        /\ ~C10_Special(arg) => result = arg
        /\ arg = S_MugBlue => result = S_MugBlueQ
        /\ arg = S_HeSaid => result = S_HeSaidQ

\* escapeCSV has returned for He said "hi"
C10_Witness ==
    /\ pc = "escaped"
    /\ arg = S_HeSaid
    /\ result = S_HeSaidQ

\* the query parameters an href of LinkHrefs writes, as names and values
C11_RawQuery(h) ==
    SubSeq(h, FirstOf(h, {"?"}, 1) + 1, FirstOf(h, {"#"}, 1) - 1)

C11_Meaning(text) == CHOOSE m \in LinkParams : m.text = text

C11_Given(h) ==
    IF C11_RawQuery(h) = <<>> THEN <<>>
    ELSE [i \in DOMAIN split(C11_RawQuery(h), "&") |->
            [name |-> C11_Meaning(split(C11_RawQuery(h), "&")[i]).name,
             value |-> C11_Meaning(split(C11_RawQuery(h), "&")[i]).value]]

C11_Named(p) == p.name \in {S_psc, S_ref, S_th}

C11_Other(p) == ~C11_Named(p)

C11_Count(params, name) == Cardinality({i \in DOMAIN params : params[i].name = name})

\* C11: the link the clean-up of a parseable href gives has no psc parameter, no
\* ref_ parameter and exactly one th parameter, of value 1, whatever parameters
\* the href has and however often; its other parameters are those of the href.
C11_NormalizedLink ==
    pc = "cleaned" /\ result.ok =>
        /\ parseURL(result.val).ok
        /\ C11_Count(parseURL(result.val).params, S_psc) = 0
        /\ C11_Count(parseURL(result.val).params, S_ref) = 0
        /\ SelectSeq(parseURL(result.val).params, C11_Named) =
               <<[name |-> S_th, value |-> <<"1">>]>>
        /\ SelectSeq(parseURL(result.val).params, C11_Other) = SelectSeq(C11_Given(arg), C11_Other)

\* an href with psc, a th of value 2 twice, and another parameter has been cleaned
C11_Witness ==
    /\ pc = "cleaned"
    /\ result.ok
    /\ Len(C11_Given(arg)) = MaxParams
    /\ C11_Count(C11_Given(arg), S_th) = 2
    /\ C11_Count(C11_Given(arg), S_psc) = 1
    /\ [name |-> S_th, value |-> <<"1">>] \notin Range(C11_Given(arg))

\* C12: the clean-up of a link the clean-up gave parses and gives that same link.
C12_Idempotent ==
    pc = "recleaned" => result = [ok |-> TRUE, val |-> arg]

\* a link with an encoded space and a fragment, of another site, has been
\* cleaned a second time
C12_Witness ==
    /\ pc = "recleaned"
    /\ result.ok
    /\ result.val = <<"h", "t", "t", "p", ":", "/", "/", "s", "h", "o", "p", ".", "e", "x", "a", "m", "p", "l", "e", "/", "p", "?", "q", "=", "b", "+", "c", "&", "t", "h", "=", "1", "#", "t", "o", "p">>

\* C13: once a failure has left main() and the catch at the call has logged it,
\* the browser is closed.
C13_FailureClosesBrowser ==
    pc = "rejected" => browserClosed

\* ------------------------------------------------------------------------
\* C14
\* ------------------------------------------------------------------------

\* the options a node shows
C14_OptionCount(node) ==
    IF node.nonAsin THEN 0
    ELSE Cardinality({i \in DOMAIN node.twister : trim(node.twister[i]) # <<>>})

C14_Widest(nodes) ==
    IF \A n \in DOMAIN nodes : ~C8_Yields(nodes[n]) THEN 0
    ELSE CHOOSE m \in 0..MaxOptionCount :
            /\ \E n \in DOMAIN nodes : C8_Yields(nodes[n]) /\ C14_OptionCount(nodes[n]) = m
            /\ \A n \in DOMAIN nodes : C8_Yields(nodes[n]) => C14_OptionCount(nodes[n]) <= m

\* rows, read back from a CSV text, are a header and one row for each node of
\* nodes that yields an item, in order, with that node's name, manufacturer and
\* product link, under a header as wide as the widest of them needs
C14_RowsOf(rows, nodes) ==
    /\ Len(rows) = 1 + Len(SelectSeq(nodes, C8_Yields))
    /\ Len(rows[1]) = 4 + C14_Widest(nodes)
    /\ \A r \in DOMAIN SelectSeq(nodes, C8_Yields) :
        /\ rows[r + 1][1] = itemOf(SelectSeq(nodes, C8_Yields)[r]).itemName
        /\ rows[r + 1][2] = itemOf(SelectSeq(nodes, C8_Yields)[r]).manufacturer
        /\ rows[r + 1][3] = itemOf(SelectSeq(nodes, C8_Yields)[r]).productLink

\* C14: nothing is carried from one wishlist URL to the next. From the
\* navigation to a URL on, the list name is the default until the name step of
\* that URL and the batch is empty until its extraction; the batch only ever
\* holds items of the nodes of that URL's page; and the CSV written for the URL
\* is named after the name resolved for it and has one row for each item of
\* that page, under a header of the width that page's items need.
C14_BatchIsolation ==
    /\ pc \in {"captchaWait", "captchaCapture", "captchaAsk", "captchaRecheck", "name"} =>
           wishlistName = DefaultName
    /\ pc \in {"captchaWait", "captchaCapture", "captchaAsk", "captchaRecheck", "name", "scroll",
               "stabilize", "query"} =>
           items = <<>> /\ itemElements = <<>> /\ searches = <<>>
    /\ \A n \in DOMAIN items : \E e \in DOMAIN itemElements :
           /\ items[n].itemName = itemOf(itemElements[e]).itemName
           /\ items[n].options = itemOf(itemElements[e]).options
    /\ JustWritten =>
        /\ wishlistName # DefaultName
        /\ LastWritten.name = outputFileOf(wishlistName)
        /\ C14_RowsOf(CsvRead(LastWritten.data), itemElements)

\* the CSV of the second URL has been written, its page narrower and shorter
\* than the page of the first, and under another name
C14_Witness ==
    /\ JustWritten
    /\ Len(wrote) = 2
    /\ wrote[1].name # wrote[2].name
    /\ Len(CsvRead(wrote[1].data)) > Len(CsvRead(wrote[2].data))
    /\ Len(CsvRead(wrote[1].data)[1]) > Len(CsvRead(wrote[2].data)[1])

\* ------------------------------------------------------------------------
\* C15
\* ------------------------------------------------------------------------

\* the steps of one URL in their order, and what may follow the last of them
C15_Edges == {
    <<"ask", "goto">>, <<"ask", "exited">>,
    <<"goto", "captchaWait">>, <<"goto", "rejected">>,
    <<"captchaWait", "captchaCapture">>, <<"captchaWait", "name">>,
    <<"captchaCapture", "captchaAsk">>, <<"captchaCapture", "name">>,
    <<"captchaAsk", "captchaRecheck">>, <<"captchaAsk", "name">>,
    <<"captchaRecheck", "name">>, <<"captchaRecheck", "exited">>,
    <<"name", "scroll">>, <<"name", "exited">>,
    <<"scroll", "scroll">>, <<"scroll", "stabilize">>, <<"scroll", "query">>,
    <<"stabilize", "stabilize">>, <<"stabilize", "query">>,
    <<"query", "extract">>,
    <<"extract", "extract">>, <<"extract", "fallback">>,
    <<"fallback", "fallback">>, <<"fallback", "write">>, <<"fallback", "rejected">>,
    <<"write", "goto">>, <<"write", "close">>,
    <<"close", "done">> }

\* the items of the batch that came out of the extraction without an external link
C15_Lacking(nodes) ==
    Cardinality({n \in DOMAIN nodes :
                    C8_Yields(nodes[n]) /\ itemOf(nodes[n]).nonAmazonLink = <<>>})

\* C15: every step of the run follows the order navigate, CAPTCHA recovery,
\* list name, scrolling, extraction, lookups, CSV and write. A navigation is to
\* the next URL of the input list, after the CSVs of all the URLs before it
\* were written; items are extracted only in the extraction and searches made
\* only in the lookup loop, after the extraction of the last node; the write
\* comes after the last lookup, when every item that lacked an external link
\* has had its search, and is the only write of that URL.
C15_PipelineOrder ==
    [][/\ <<pc, pc'>> \in C15_Edges
       /\ navigated' # navigated =>
            /\ pc = "goto"
            /\ Len(navigated') = idx
            /\ navigated' = SubSeq(wishlistUrls, 1, idx)
            /\ Len(wrote) = idx - 1
       /\ items' # items /\ pc # "goto" =>
            pc \in {"extract", "fallback"} /\ (pc = "extract" <=> Len(items') # Len(items))
       /\ searches' # searches /\ pc # "goto" =>
            pc = "fallback" /\ k = Len(itemElements) + 1
       /\ (wrote' # wrote \/ files' # files) =>
            /\ pc = "write"
            /\ j = Len(items) + 1
            /\ Len(searches) = C15_Lacking(itemElements)
            /\ wrote' = Append(wrote, wrote'[idx])
            /\ wrote'[idx].url = idx
            /\ Len(navigated) = idx
       /\ pc' = "done" => Len(wrote) = Len(wishlistUrls)]_vars

\* a run of two URLs is over, the second with lookups
C15_Witness ==
    /\ pc = "done"
    /\ Len(navigated) = 2
    /\ Len(wrote) = 2
    /\ searches # <<>>

\* ------------------------------------------------------------------------
\* C16 .. C19: the scroll and stabilization loops
\* ------------------------------------------------------------------------

\* C16: in the stabilization, after a check that found the heading not visible
\* or not in the DOM, the accumulated visible time is zero.
C16_GapResets ==
    pc = "stabilize" /\ endOfList \in {"hidden", "absent"} => continuousVisibleTime = 0

\* C17: whatever the heading does, the scroll and stabilization loops end and
\* the extraction starts.
C17_DetectorTerminates == (pc = "scroll") ~> (pc = "extract")

\* the loops are over without the heading ever seen visible
C18_Incomplete == pc \in {"query", "extract"} /\ ~endOfListVisible

\* C18: no run scrolls to the bottom more than 30 times; while the heading has
\* not been seen visible every round of the scroll loop scrolls once and checks
\* once, the loop ends, and when it ends without the heading seen it has
\* scrolled exactly 30 times and no stabilization has run.
C18_ScrollBudget ==
    /\ [](/\ scrolls <= maxScrolls
          /\ pc = "scroll" =>
                /\ scrolls = scrollCount
                /\ scrollCount < maxScrolls
                /\ ~endOfListVisible
                /\ endOfList # "visible"
          /\ pc = "stabilize" => endOfListVisible
          /\ C18_Incomplete =>
                /\ scrolls = maxScrolls
                /\ scrollCount = maxScrolls
                /\ continuousVisibleTime = 0
                /\ sinceLastCheck = 0)
    /\ [][pc = "scroll" =>
            /\ scrolls' = scrolls + 1
            /\ endOfList' # "none"
            /\ endOfList' # "visible" =>
                    pc' = (IF scrolls' = maxScrolls THEN "query" ELSE "scroll")]_vars
    /\ [](pc = "scroll" => <>(C18_Incomplete \/ endOfListVisible))

\* the 30th check has missed the heading as the 29 before it
C18_Witness ==
    /\ pc = "query"
    /\ ~endOfListVisible
    /\ endOfList \in {"hidden", "absent", "throws"}
    /\ scrolls = maxScrolls

\* C19: a check of the scroll loop that finds the heading visible, the k-th
\* after k - 1 that did not, ends the loop at once, after exactly k scrolls, for
\* every k up to 30; a stabilization whose checks all find the heading visible
\* ends; and after a visible check the loops end with the heading recorded as
\* seen and the full visible time accumulated, never as a budget used up.
C19_ScrollCompletion ==
    /\ [][pc = "scroll" /\ endOfList' = "visible" =>
            /\ pc' = "stabilize"
            /\ endOfListVisible'
            /\ scrollCount' = scrollCount
            /\ scrolls' = scrollCount + 1
            /\ scrolls' \in 1..maxScrolls]_vars
    /\ [](pc = "stabilize" /\ sinceLastCheck = 0 =>
            /\ endOfList = "visible"
            /\ scrolls = scrollCount + 1
            /\ scrolls \in 1..maxScrolls)
    /\ [](pc \in {"query", "extract"} /\ endOfListVisible => continuousVisibleTime = StableMs)
    /\ [](C18_Incomplete => scrollCount = maxScrolls)
    /\ [](pc = "stabilize" => <>(pc # "stabilize" \/ endOfList # "visible"))

\* the heading was missed 29 times and is visible at the 30th check
C19_Witness ==
    /\ pc = "stabilize"
    /\ endOfListVisible
    /\ endOfList = "visible"
    /\ scrollCount = maxScrolls - 1
    /\ scrolls = maxScrolls

\* ------------------------------------------------------------------------
\* C20
\* ------------------------------------------------------------------------

\* C20: within one URL the question for the CAPTCHA text is asked at most once
\* and at most one answer is submitted, only after the question; without the
\* challenge text found within the timeout nothing is asked and nothing
\* submitted; a re-check that still finds the challenge ends the process, with
\* the one answer submitted; and every question and every submission is a step
\* of the one CAPTCHA block of the URL, the first of that URL.
C20_SingleCaptchaAttempt ==
    /\ [](/\ prompts <= 1
          /\ Len(submitted) <= prompts
          /\ ~captchaPrompt => prompts = 0 /\ submitted = <<>>
          /\ pc = "captchaAsk" => prompts = 0
          /\ pc = "captchaRecheck" => Len(submitted) = 1
          /\ captchaStillPresent => pc = "exited" /\ prompts = 1 /\ Len(submitted) = 1)
    /\ [][/\ prompts' > prompts => pc = "captchaAsk" /\ prompts = 0 /\ captchaPrompt
          /\ Len(submitted') > Len(submitted) =>
                /\ pc = "captchaAsk"
                /\ submitted = <<>>
                /\ prompts' = 1
                /\ Len(submitted') = 1
          /\ pc = "captchaRecheck" => pc' \in {"name", "exited"}]_vars

\* the one answer failed: the challenge is still there at the re-check
C20_Witness ==
    /\ captchaStillPresent
    /\ prompts = 1
    /\ Len(submitted) = 1

\* ------------------------------------------------------------------------
\* C21
\* ------------------------------------------------------------------------

\* C21: the name step of a URL whose challenge text was found is reached only
\* with an answer submitted and the challenge gone at the re-check.
C21_CaptchaGate ==
    pc = "name" /\ captchaPrompt => Len(submitted) = 1 /\ ~captchaStillPresent

\* ------------------------------------------------------------------------
\* C22
\* ------------------------------------------------------------------------

\* C22: a run that ends at the check of the list name is one whose page had no
\* name element.
C22_FailsOnlyWithoutElement ==
    NameExit => wishlistNameElem = None

\* ------------------------------------------------------------------------
\* C23
\* ------------------------------------------------------------------------

\* its and were agree in everything but the external links
C23_SameButLink(its, were) ==
    /\ Len(its) = Len(were)
    /\ \A n \in DOMAIN were :
        /\ its[n].itemName = were[n].itemName
        /\ its[n].manufacturer = were[n].manufacturer
        /\ its[n].options = were[n].options
        /\ its[n].productLink = were[n].productLink

\* the batch as the extraction of the page left it
C23_Extracted == [n \in DOMAIN SelectSeq(itemElements, C8_Yields) |->
                     itemOf(SelectSeq(itemElements, C8_Yields)[n])]

\* C23: a step of the lookup loop changes nothing of the batch but the external
\* link of the item it stands at, and that only when the link was empty; an
\* item with an external link is passed without a search; the other variables
\* of the iteration stay as they were. During and after the loop the batch is
\* the one the extraction left, item by item and in order, but for external
\* links that were empty then.
C23_FallbackFrame ==
    /\ [][pc = "fallback" =>
            /\ C23_SameButLink(items', items)
            /\ \A n \in DOMAIN items :
                  items[n].nonAmazonLink # <<>> \/ n # j => items'[n] = items[n]
            /\ searches' # searches =>
                  /\ j <= Len(items)
                  /\ items[j].nonAmazonLink = <<>>
                  /\ Len(searches') = Len(searches) + 1
            /\ UNCHANGED <<nameVars, itemElements, k, fileVars, navigated>>]_vars
    /\ [](pc \in {"fallback", "write"} =>
            /\ C23_SameButLink(items, C23_Extracted)
            /\ \A n \in DOMAIN items :
                  C23_Extracted[n].nonAmazonLink # <<>> =>
                      items[n].nonAmazonLink = C23_Extracted[n].nonAmazonLink)

\* the lookups are over on a batch of an item that had no external link and
\* has one now, after its search, and an item that had one from the start
C23_Witness ==
    /\ pc = "write"
    /\ Len(items) = 2
    /\ Len(searches) = 1
    /\ C23_Extracted[1].nonAmazonLink = <<>>
    /\ items[1].nonAmazonLink # <<>>
    /\ C23_Extracted[2].nonAmazonLink # <<>>

\* ------------------------------------------------------------------------
\* C24
\* ------------------------------------------------------------------------

\* C24: after a lookup that found the first organic anchor with an href, the
\* item has an external link, the href itself when it has no "uddg="; after a
\* lookup that found no anchor the link is still empty.
C24_LookupResult ==
    pc = "resolved" =>
        /\ arg = None => result = <<>>
        /\ arg # None /\ arg[1] # <<>> =>
            /\ result # <<>>
            /\ IndexOfFrom(arg[1], S_uddg, 1) = 0 => result = arg[1]

\* ------------------------------------------------------------------------
\* C25
\* ------------------------------------------------------------------------

C25_NonBlank(text) == trim(text) # <<>>

\* the trimmed non-empty option texts of a node, in order
C25_Options(node) ==
    [i \in DOMAIN SelectSeq(node.twister, C25_NonBlank) |->
        trim(SelectSeq(node.twister, C25_NonBlank)[i])]

\* a catalog node whose anchor has an href that new URL rejects
C25_Malformed(node) ==
    /\ ~node.nonAsin
    /\ node.anchor # None
    /\ node.href # None
    /\ node.href[1] # <<>>
    /\ ~parseURL(node.href[1]).ok

\* the item of a catalog node with an anchor, without its product link
C25_ItemWithoutLink(node) ==
    [itemName |-> trim(node.anchor[1]),
     manufacturer |-> IF node.byline = None THEN <<>> ELSE trim(node.byline[1]),
     options |-> C25_Options(node),
     productLink |-> <<>>,
     nonAmazonLink |-> <<>>]

\* C25 as worded: once the loop is past a catalog node whose href does not
\* parse, the batch holds that node's item with its name, manufacturer and
\* options and an empty product link.
C25_MalformedLinkKept ==
    k >= 2 /\ C25_Malformed(itemElements[1]) =>
        items # <<>> /\ items[1] = C25_ItemWithoutLink(itemElements[1])

\* C25, amended: once the loop is past a catalog node whose href does not
\* parse, the batch holds that node's item with its name, manufacturer and
\* options and an empty product link if the name is not empty, and no item of
\* that node if it is; the run has not ended, and the next node is extracted.
C25_MalformedLinkNamedKept ==
    k >= 2 /\ C25_Malformed(itemElements[1]) =>
        /\ exitCode = -1
        /\ pc \in {"extract", "fallback"}
        /\ trim(itemElements[1].anchor[1]) # <<>> =>
              items # <<>> /\ items[1] = C25_ItemWithoutLink(itemElements[1])
        /\ trim(itemElements[1].anchor[1]) = <<>> =>
              \A n \in DOMAIN items : items[n].itemName # <<>>
        /\ k = 2 => Len(items) = (IF trim(itemElements[1].anchor[1]) # <<>> THEN 1 ELSE 0)
        /\ k = 3 =>
              /\ Len(items) = (IF trim(itemElements[1].anchor[1]) # <<>> THEN 2 ELSE 1)
              /\ items[Len(items)].itemName = S_DeskLamp

\* a named node with a byline, an option and an href that does not parse has
\* been extracted, and the node after it
C25_Witness ==
    /\ k = 3
    /\ C25_Malformed(itemElements[1])
    /\ Len(items) = 2
    /\ items[1].itemName = S_MugBlue
    /\ items[1].manufacturer = S_Acme
    /\ items[1].options = <<S_Large>>
    /\ items[1].productLink = <<>>

\* ------------------------------------------------------------------------
\* C26
\* ------------------------------------------------------------------------

\* text is http:// or https://, in either case of the letters, followed by one
\* or more characters none of which is white space
C26_IsUrl(text) ==
    \E p \in {7, 8} :
        /\ Len(text) > p
        /\ toLowerCase(SubSeq(text, 1, p)) = (IF p = 7 THEN S_http ELSE S_https) \o <<":", "/", "/">>
        /\ \A i \in (p + 1)..Len(text) : ~IsSpace(text[i])

\* the item of a node with the non-catalog marker and a span of that text
C26_NonCatalog(text) ==
    [itemName |-> IF C26_IsUrl(text) THEN <<>> ELSE text,
     manufacturer |-> <<>>,
     options |-> <<>>,
     productLink |-> <<>>,
     nonAmazonLink |-> IF C26_IsUrl(text) THEN text ELSE <<>>]

\* the item of a node without the marker
C26_Catalog(node) ==
    [itemName |-> IF node.anchor = None THEN <<>> ELSE trim(node.anchor[1]),
     manufacturer |-> IF node.byline = None THEN <<>> ELSE trim(node.byline[1]),
     options |-> C25_Options(node),
     productLink |-> IF node.anchor # None /\ node.href # None /\ node.href[1] # <<>>
                        /\ parseURL(node.href[1]).ok
                     THEN productLinkOf(node.href[1]).val ELSE <<>>,
     nonAmazonLink |-> <<>>]

C26_Expected(node) ==
    IF node.nonAsin
    THEN C26_NonCatalog(IF node.span = None THEN <<>> ELSE trim(node.span[1]))
    ELSE C26_Catalog(node)

\* C26: the item the extraction yields of a node with the non-catalog marker
\* has no manufacturer, no options and no product link, whatever else the node
\* holds, and its span's trimmed text as external link (with an empty name)
\* when the text is a URL without white space, as name (with an empty external
\* link) otherwise; the item of a node without the marker has the anchor's
\* trimmed text as name, the cleaned href as product link, the byline's
\* trimmed text as manufacturer, the trimmed non-empty option texts in order
\* as options and an empty external link, whatever the node's span holds.
\* (Stated of the batch before the first lookup.)
C26_ItemVariants ==
    k >= 2 /\ searches = <<>> =>
        /\ C8_Yields(itemElements[1]) =>
              items # <<>> /\ items[1] = C26_Expected(itemElements[1])
        /\ ~C8_Yields(itemElements[1]) => Len(items) <= k - 2
        /\ \A n \in DOMAIN items :
              \/ /\ items[n].nonAmazonLink = <<>>
                 /\ items[n].itemName # <<>> \/ items[n].productLink # <<>>
              \/ /\ items[n].nonAmazonLink # <<>>
                 /\ items[n].itemName = <<>>
                 /\ items[n].manufacturer = <<>>
                 /\ items[n].options = <<>>
                 /\ items[n].productLink = <<>>

\* a node with the marker, a URL in upper-case letters as its text, and an
\* anchor, a byline and an option besides, has been extracted
C26_Witness ==
    /\ k >= 2
    /\ itemElements[1].nonAsin
    /\ itemElements[1].byline # None
    /\ itemElements[1].twister # <<>>
    /\ items # <<>>
    /\ items[1].nonAmazonLink # <<>>
    /\ items[1].nonAmazonLink # S_MakerUrl
    /\ items[1].manufacturer = <<>>

====
